---------------------------- MODULE Spec2Model ----------------------------
(***************************************************************************)
(* A model of the tachyon-tex compilation service: the result cache, the   *)
(* blob store and the format cache of src/src/services.rs, and the request *)
(* handlers built on them.                                                 *)
(***************************************************************************)
EXTENDS Integers, Sequences, FiniteSets, TLC

(***************************************************************************)
(* Bounds of the model.                                                    *)
(***************************************************************************)
\* how many times the clock advances
MaxTicks == 2
\* how many calls the clients of the services API make in all
MaxCalls == 3

(***************************************************************************)
(* Program constants.                                                      *)
(***************************************************************************)
\* services.rs:73  max_cache_mb: 512
max_cache_mb == 512
\* services.rs:132  7 days = 604800 seconds
SWEEP_TTL_SECS == 604800
CACHE_TTL_SECS == 24 * 60 * 60

MiB == 1024 * 1024
\* services.rs:107  self.max_cache_mb * 1024 * 1024
CacheLimit == max_cache_mb * 1024 * 1024

\* Option<T>
None == [some |-> FALSE]
Some(v) == [some |-> TRUE, val |-> v]

(***************************************************************************)
(* Byte strings are sequences of tokens; every token stands for the bytes  *)
(* of one lexical unit of a file.                                          *)
(***************************************************************************)
BeginDoc == "\\begin{document}"
EndDoc == "\\end{document}"

\* xxh64(data, seed): a 64-bit hash, taken to be free of collisions: the
\* hash of a byte string is a value that determines the string.
xxh64(data, seed) == [xxh64 |-> data, seed |-> seed]

\* CompilationCache::hash_input
hash_input(data) == xxh64(data, 0)

(***************************************************************************)
(* PDFs are opaque byte strings of a known length.                         *)
(***************************************************************************)
Pdf(tag, mib) == [pdf |-> tag, len |-> mib * MiB]
\* data.len()
ByteLen(bytes) == bytes.len

(***************************************************************************)
(* Inputs of the services API.                                             *)
(***************************************************************************)
\* the PDFs an engine run can produce
PDFs == {Pdf("p1", 200), Pdf("p2", 400), Pdf("p3", 600)}
\* elapsed compile times in milliseconds
CompileTimes == {7, 9}
\* the compile time the clients of the services API record
ApiCompileTimes == {7}
\* byte strings that requests are fingerprinted from
ApiInputs == {<<"a">>, <<"b">>}
ApiHashes == {hash_input(d) : d \in ApiInputs}
\* hex-encoded hashes and payloads of the blob store
Blobs == {<<"png1">>, <<"png2">>}
\* format!("{:x}", hash)
hash_hex(h) == [hex |-> h]
BlobKeys == {hash_hex(xxh64(b, 0)) : b \in Blobs}
Preambles == {<<"\\documentclass", "\n">>, << >>}
\* how far the clock moves in one step
TickSteps == {1, SWEEP_TTL_SECS - 1}
\* the clock at startup, in seconds since the epoch
StartTime == 2 * SWEEP_TTL_SECS
\* the clients of the services API
Clients == {"c1", "c2"}

(***************************************************************************)
(* Files and uploads.                                                      *)
(***************************************************************************)
\* a file name, by its stem and its extension
FileName(stem, ext) == [stem |-> stem, ext |-> ext]
\* file_name.ends_with(".tex")
ends_with(name, ext) == name.ext = ext
MainTex == FileName("main", "tex")
\* a file name with directory components in front: "/" the root, ".." the
\* parent directory
PathName(dir, stem, ext) == [dir |-> dir, stem |-> stem, ext |-> ext]

\* a byte that makes a file invalid UTF-8
BadByte == "\\xFF"
\* String::from_utf8(data).is_ok()
from_utf8_ok(data) == \A i \in 1..Len(data) : data[i] # BadByte

\* a document that compiles
GoodDoc == <<"\\documentclass", "\n", BeginDoc, "\n", "hello", "\n", EndDoc>>
\* the same document without its terminator
NoEndDoc == <<"\\documentclass", "\n", BeginDoc, "\n", "hello", "\n">>
\* two chapters
DocA == <<BeginDoc, "A", EndDoc>>
DocB == <<BeginDoc, "B", EndDoc>>
\* an image
Png == <<"png1">>

\* a multipart part that arrives whole
Part(name, data) == [kind |-> "file", name |-> name, data |-> data]
\* next_field() fails: bad multipart framing
BadFrame == [kind |-> "badframe"]
\* field.bytes() fails: the part cannot be read
BadRead(name) == [kind |-> "badread", name |-> name]

\* the multipart bodies clients send to POST /compile
Uploads ==
    { << >>,
      <<Part(MainTex, GoodDoc)>>,
      <<Part(MainTex, NoEndDoc)>>,
      <<Part(FileName("paper", "tex"), GoodDoc)>>,
      <<Part(FileName("a", "tex"), DocA), Part(FileName("b", "tex"), DocB)>>,
      <<Part(FileName("b", "tex"), DocB), Part(FileName("a", "tex"), DocA)>>,
      <<Part(FileName("fig", "png"), Png)>>,
      <<Part(PathName(<<"..">>, "evil", "sty"), Png),
        Part(PathName(<<"/", "srv">>, "evil", "cls"), Png)>>,
      <<Part(MainTex, <<BadByte>>)>>,
      <<Part(MainTex, GoodDoc), BadFrame>>,
      <<Part(MainTex, GoodDoc), BadRead(FileName("fig", "png"))>> }

\* how many requests are made in all
MaxRequests == 2
Requests == 1..MaxRequests
NotStarted == [pc |-> "new", kind |-> "none"]

\* std::env::var("PDF_CACHE_ENABLED") when the variable is not set
NotSet == "<not set>"
\* the values the variable has at startup
PdfCacheEnvValues == {NotSet, "true"}

\* v.to_lowercase()
to_lowercase(v) == IF v \in {"TRUE", "True"} THEN "true" ELSE v

\* main.rs:989-991
cache_enabled(v) == IF v = NotSet THEN FALSE ELSE (to_lowercase(v) = "true" \/ v = "1")

\* no call of the healer has been made
NotHealing == [pc |-> "idle"]
\* no call of compile_file has been made
NotCompiling == [pc |-> "idle"]
\* no call of the log parser has been made
NotParsing == [pc |-> "idle"]
\* handle_socket is entered: nothing received, nothing sent
Connected == [pc |-> "recv", received |-> << >>, outbox |-> << >>, cur |-> 0]

VARIABLES
    now,            \* SystemTime::now() in seconds since the epoch
    ticks,          \* how many times the clock has advanced
    enabled,        \* CompilationCache.enabled
    entries,        \* CompilationCache.entries: hash -> CacheEntry
    readers,        \* the tasks holding the read lock of entries
    seen_preambles, \* FormatCache.seen_preambles
    blob_cache,     \* BlobStore.cache: hex hash -> bytes
    call,           \* per client: the services call in progress, or its result
    ncalls,         \* the services calls started
    cam_hist,       \* history: per preamble hash, the check_and_mark calls made and those that returned false
    last_put,       \* history: per blob key, the bytes of the last completed put
    req,            \* per request: the handler's position and locals, or its response
    nreq,           \* the requests started
    dirs,           \* the workspace directories that exist: directory -> file name -> bytes
    last_miss,      \* history: per fingerprint, the last successful compile stored under it
    stray,          \* history: the requests that wrote to, or ran the engine on, a workspace that does not exist
    main_entries,   \* main.rs CompilationCache.entries: hash -> CacheEntry
    cache_dir,      \* main.rs: the files of /tmp/tachyon-pdf-cache
    cache_env,      \* the environment variable PDF_CACHE_ENABLED at startup
    heal,           \* the last call of SelfHealer::attempt_heal: its arguments and its result
    cf,             \* the call of Compiler::compile_file: its position, its locals and the main source file
    diag,           \* the last call of parse_log_errors: its argument and its result
    sock            \* one WebSocket connection: the loop of handle_socket, the messages received and the messages sent

\* the variables of the request handlers
mvars == <<main_entries, cache_dir>>
evars == <<cache_env, heal, cf, diag, sock>>
hvars == <<req, nreq, dirs, last_miss, stray, main_entries, cache_dir, cache_env,
           heal, cf, diag, sock>>
\* the variables of the clients of the services API, the connection aside
wvars == <<call, ncalls, main_entries, cache_dir, cache_env, heal, cf, diag>>
\* the variables of the clients of the services API
avars == <<call, ncalls, main_entries, cache_dir, cache_env, heal, cf, diag, sock>>
vars == <<now, ticks, enabled, entries, readers, seen_preambles, blob_cache,
          call, ncalls, cam_hist, last_put, req, nreq, dirs, last_miss, stray,
          main_entries, cache_dir, cache_env, heal, cf, diag, sock>>

(***************************************************************************)
(* CompilationCache (services.rs)                                          *)
(***************************************************************************)
RECURSIVE SumSizes(_, _)
\* entries.values().map(|e| e.size_bytes).sum()
SumSizes(es, keys) ==
    IF keys = {} THEN 0
    ELSE LET k == CHOOSE x \in keys : TRUE
         IN es[k].size_bytes + SumSizes(es, keys \ {k})

current_size(es) == SumSizes(es, DOMAIN es)

\* the map without key k
Remove(es, k) == [x \in (DOMAIN es) \ {k} |-> es[x]]

\* the map with key k bound to v
Insert(es, k, v) == [x \in (DOMAIN es) \cup {k} |-> IF x = k THEN v ELSE es[x]]

\* entries.iter().min_by_key(|(_, e)| e.last_accessed): the keys it can
\* return; among equal minima the iteration order of the map decides
lru_candidates(es) ==
    {k \in DOMAIN es : \A x \in DOMAIN es : es[k].last_accessed <= es[x].last_accessed}

\* put_pdf, lines 106-113: the map after the eviction step, victim being
\* the key min_by_key returned
evict_for(es, pdf_data, victim) ==
    IF current_size(es) + ByteLen(pdf_data) > CacheLimit
    THEN (IF victim \in DOMAIN es THEN Remove(es, victim) ELSE es)
    ELSE es

\* an entry stamped as never accessed
new_entry_unaccessed(pdf_data, compile_time_ms, t) ==
    [pdf_data |-> pdf_data, created_at |-> t, last_accessed |-> 0,
     compile_time_ms |-> compile_time_ms, size_bytes |-> ByteLen(pdf_data)]

\* put_pdf, lines 115-121
new_entry(pdf_data, compile_time_ms, t) ==
    [pdf_data |-> pdf_data, created_at |-> t, last_accessed |-> t,
     compile_time_ms |-> compile_time_ms, size_bytes |-> ByteLen(pdf_data)]

\* put_pdf under the write lock
put_pdf(es, hash, pdf_data, compile_time_ms, t, victim) ==
    Insert(evict_for(es, pdf_data, victim), hash,
           new_entry(pdf_data, compile_time_ms, t))

\* the victims put_pdf can pick
victims(es) == IF DOMAIN es = {} THEN {"none"} ELSE lru_candidates(es)

\* a lookup that restamps the whole entry
touch_created_too(es, hash, t) ==
    [es EXCEPT ![hash].last_accessed = t, ![hash].created_at = t]

\* get_pdf, line 91: entry.last_accessed.store(now)
touch(es, hash, t) == [es EXCEPT ![hash].last_accessed = t]

\* get_pdf, line 93
hit_value(es, hash) == Some([pdf_data |-> es[hash].pdf_data,
                             compile_time_ms |-> es[hash].compile_time_ms])

\* cleanup_expired, line 132: now - last_accessed >= 604800 in u64, where a
\* wrapped difference is close to 2^64
is_expired(e, t) ==
    IF e.last_accessed > t THEN TRUE ELSE t - e.last_accessed >= SWEEP_TTL_SECS

to_remove(es, t) == {k \in DOMAIN es : is_expired(es[k], t)}

\* cleanup_expired under the write lock
sweep(es, t) == [k \in (DOMAIN es) \ to_remove(es, t) |-> es[k]]

(***************************************************************************)
(* BlobStore and FormatCache (services.rs)                                 *)
(***************************************************************************)
\* a lookup that finds nothing
blob_get_absent(cache, hash) == None

\* BlobStore::get: cache.get(hash).cloned()
blob_get(cache, hash) == IF hash \in DOMAIN cache THEN Some(cache[hash]) ELSE None

\* a put that keeps the bytes already stored under the key
blob_put_keep_first(cache, hash, data) ==
    IF hash \in DOMAIN cache THEN cache ELSE Insert(cache, hash, data)

\* BlobStore::put: cache.insert(hash, data)
blob_put(cache, hash, data) == Insert(cache, hash, data)

\* the first position of tok in seq
find(seq, tok) ==
    CHOOSE i \in 1..Len(seq) : seq[i] = tok /\ \A j \in 1..(i - 1) : seq[j] # tok

\* an extraction that takes the whole content for the preamble
extract_preamble_whole(content) == Some(content)

\* FormatCache::extract_preamble: what precedes the first \begin{document}
extract_preamble(content) ==
    IF \E i \in 1..Len(content) : content[i] = BeginDoc
    THEN Some(SubSeq(content, 1, find(content, BeginDoc) - 1))
    ELSE None

\* FormatCache::hash_preamble
hash_preamble(preamble) == xxh64(preamble, 0)

\* a check that never reports a preamble as seen
check_and_mark_never(seen, preamble_hash) == FALSE

\* FormatCache::check_and_mark: the value returned
check_and_mark_ret(seen, preamble_hash) == preamble_hash \in seen

\* FormatCache::check_and_mark: the set afterwards
check_and_mark_set(seen, preamble_hash) ==
    IF preamble_hash \in seen THEN seen ELSE seen \cup {preamble_hash}

(***************************************************************************)
(* Calls of the services API by concurrent clients.                        *)
(***************************************************************************)
Idle == [op |-> "idle", pc |-> "idle"]

Started(c) == /\ call[c].pc \in {"idle", "done", "panicked"}
              /\ ncalls < MaxCalls
              /\ ncalls' = ncalls + 1

\* a cache that never takes itself for disabled
disabled_never(flag) == FALSE

\* get_pdf and put_pdf, lines 85 and 100: if !self.enabled { return }
disabled(flag) == ~flag

\* the clock advances
Tick ==
    /\ ticks < MaxTicks
    /\ \E d \in TickSteps : now' = now + d
    /\ ticks' = ticks + 1
    /\ UNCHANGED <<enabled, entries, readers, seen_preambles, blob_cache,
                   call, ncalls, cam_hist, last_put>>
    /\ UNCHANGED hvars

\* get_pdf, lines 85-89 and 95: the read lock is taken, the entry looked up
\* and the clock read
GetPdfBegin(c) ==
    /\ Started(c)
    /\ \E hash \in ApiHashes :
         IF disabled(enabled)
         THEN /\ call' = [call EXCEPT ![c] = [op |-> "get_pdf", pc |-> "done",
                                             hash |-> hash, ret |-> None]]
              /\ UNCHANGED readers
         ELSE IF hash \in DOMAIN entries
              THEN /\ call' = [call EXCEPT ![c] = [op |-> "get_pdf", pc |-> "store",
                                                  hash |-> hash, now |-> now]]
                   /\ readers' = readers \cup {c}
              ELSE /\ call' = [call EXCEPT ![c] = [op |-> "get_pdf", pc |-> "done",
                                                  hash |-> hash, ret |-> None]]
                   /\ UNCHANGED readers
    /\ UNCHANGED <<now, ticks, enabled, entries, seen_preambles, blob_cache,
                   cam_hist, last_put>>
    /\ UNCHANGED hvars

\* get_pdf, lines 91-93: last_accessed is stored, the bytes are cloned and
\* the read lock is dropped
GetPdfStore(c) ==
    /\ call[c].op = "get_pdf" /\ call[c].pc = "store"
    /\ entries' = touch(entries, call[c].hash, call[c].now)
    /\ call' = [call EXCEPT ![c] = [op |-> "get_pdf", pc |-> "done",
                                    hash |-> call[c].hash,
                                    ret |-> hit_value(entries, call[c].hash)]]
    /\ readers' = readers \ {c}
    /\ UNCHANGED <<now, ticks, enabled, seen_preambles, blob_cache, ncalls,
                   cam_hist, last_put>>
    /\ UNCHANGED hvars

\* put_pdf, lines 100-102: the clock is read before the write lock is awaited
PutPdfBegin(c) ==
    /\ Started(c)
    /\ \E hash \in ApiHashes, pdf_data \in PDFs, compile_time_ms \in ApiCompileTimes :
         call' = [call EXCEPT ![c] =
                    IF disabled(enabled)
                    THEN [op |-> "put_pdf", pc |-> "done"]
                    ELSE [op |-> "put_pdf", pc |-> "lock", hash |-> hash,
                          pdf_data |-> pdf_data,
                          compile_time_ms |-> compile_time_ms, now |-> now]]
    /\ UNCHANGED <<now, ticks, enabled, entries, readers, seen_preambles,
                   blob_cache, cam_hist, last_put>>
    /\ UNCHANGED hvars

\* put_pdf, lines 103-121, under the write lock
PutPdfInsert(c) ==
    /\ call[c].op = "put_pdf" /\ call[c].pc = "lock"
    /\ readers = {}
    /\ \E victim \in victims(entries) :
         entries' = put_pdf(entries, call[c].hash, call[c].pdf_data,
                            call[c].compile_time_ms, call[c].now, victim)
    /\ call' = [call EXCEPT ![c] = [op |-> "put_pdf", pc |-> "done"]]
    /\ UNCHANGED <<now, ticks, enabled, readers, seen_preambles, blob_cache,
                   ncalls, cam_hist, last_put>>
    /\ UNCHANGED hvars

\* cleanup_expired, line 126: the clock is read before the write lock is awaited
CleanupBegin(c) ==
    /\ Started(c)
    /\ call' = [call EXCEPT ![c] = [op |-> "cleanup_expired", pc |-> "lock",
                                    now |-> now]]
    /\ UNCHANGED <<now, ticks, enabled, entries, readers, seen_preambles,
                   blob_cache, cam_hist, last_put>>
    /\ UNCHANGED hvars

\* line 132 subtracts in u64: an entry accessed after the sweep read the
\* clock makes the difference negative
underflows(es, t) == \E k \in DOMAIN es : es[k].last_accessed > t

\* cleanup_expired, lines 127-141, under the write lock; a build without
\* overflow checks wraps a negative difference
CleanupSweep(c) ==
    /\ call[c].op = "cleanup_expired" /\ call[c].pc = "lock"
    /\ readers = {}
    /\ entries' = sweep(entries, call[c].now)
    /\ call' = [call EXCEPT ![c] = [op |-> "cleanup_expired", pc |-> "done",
                                    ret |-> Cardinality(to_remove(entries, call[c].now))]]
    /\ UNCHANGED <<now, ticks, enabled, readers, seen_preambles, blob_cache,
                   ncalls, cam_hist, last_put>>
    /\ UNCHANGED hvars

\* cleanup_expired, line 132, in a build with overflow checks: the
\* subtraction panics and the write lock is dropped with the map as it was
CleanupPanic(c) ==
    /\ call[c].op = "cleanup_expired" /\ call[c].pc = "lock"
    /\ readers = {}
    /\ underflows(entries, call[c].now)
    /\ call' = [call EXCEPT ![c] = [op |-> "cleanup_expired", pc |-> "panicked"]]
    /\ UNCHANGED <<now, ticks, enabled, entries, readers, seen_preambles,
                   blob_cache, ncalls, cam_hist, last_put>>
    /\ UNCHANGED hvars

\* BlobStore::put
BlobPut(c) ==
    /\ Started(c)
    /\ \E hash \in BlobKeys, data \in Blobs :
         /\ blob_cache' = blob_put(blob_cache, hash, data)
         /\ last_put' = Insert(last_put, hash, data)
         /\ call' = [call EXCEPT ![c] = [op |-> "blob_put", pc |-> "done",
                                         hash |-> hash, data |-> data]]
    /\ UNCHANGED <<now, ticks, enabled, entries, readers, seen_preambles, cam_hist>>
    /\ UNCHANGED hvars

\* BlobStore::get
BlobGet(c) ==
    /\ Started(c)
    /\ \E hash \in BlobKeys :
         call' = [call EXCEPT ![c] = [op |-> "blob_get", pc |-> "done",
                                      hash |-> hash,
                                      ret |-> blob_get(blob_cache, hash),
                                      stored |-> hash \in DOMAIN last_put,
                                      expect |-> IF hash \in DOMAIN last_put
                                                 THEN last_put[hash] ELSE << >>]]
    /\ UNCHANGED <<now, ticks, enabled, entries, readers, seen_preambles,
                   blob_cache, cam_hist, last_put>>
    /\ UNCHANGED hvars

\* the history of check_and_mark after a call for h that returned r
cam_record(h, r) ==
    [cam_hist EXCEPT ![h] = [calls |-> @.calls + 1,
                             falses |-> @.falses + (IF r THEN 0 ELSE 1)]]

\* FormatCache::check_and_mark, whole under the write lock
CheckAndMark(c) ==
    /\ Started(c)
    /\ \E p \in Preambles :
         LET h == hash_preamble(p)
             r == check_and_mark_ret(seen_preambles, h)
         IN /\ seen_preambles' = check_and_mark_set(seen_preambles, h)
            /\ cam_hist' = cam_record(h, r)
            /\ call' = [call EXCEPT ![c] = [op |-> "check_and_mark", pc |-> "done",
                                            hash |-> h, ret |-> r]]
    /\ UNCHANGED <<now, ticks, enabled, entries, readers, blob_cache, last_put>>
    /\ UNCHANGED hvars

PreambleHashes == {hash_preamble(p) : p \in Preambles}

InitServices ==
    /\ now = StartTime
    /\ ticks = 0
    /\ entries = << >>
    /\ readers = {}
    /\ seen_preambles = {}
    /\ blob_cache = << >>
    /\ call = [c \in Clients |-> Idle]
    /\ ncalls = 0
    /\ cam_hist = [h \in PreambleHashes |-> [calls |-> 0, falses |-> 0]]
    /\ last_put = << >>
    /\ req = [r \in Requests |-> NotStarted]
    /\ nreq = 0
    /\ dirs = << >>
    /\ last_miss = << >>
    /\ stray = {}
    /\ main_entries = << >>
    /\ cache_dir = << >>
    /\ heal = NotHealing
    /\ cf = NotCompiling
    /\ diag = NotParsing
    /\ sock = Connected

\* main: the environment is read, then CompilationCache::new(cache_enabled),
\* FormatCache::new(), BlobStore::new()
Init ==
    /\ cache_env \in PdfCacheEnvValues
    /\ enabled = cache_enabled(cache_env)
    /\ InitServices

\* the result cache under concurrent callers
NextCache ==
    \/ Tick
    \/ \E c \in Clients : GetPdfBegin(c)
    \/ \E c \in Clients : GetPdfStore(c)
    \/ \E c \in Clients : PutPdfBegin(c)
    \/ \E c \in Clients : PutPdfInsert(c)
    \/ \E c \in Clients : CleanupBegin(c)
    \/ \E c \in Clients : CleanupSweep(c)
    \/ \E c \in Clients : CleanupPanic(c)

SpecCache == Init /\ [][NextCache]_vars

\* the blob store and the format cache under concurrent callers
NextStores ==
    \/ \E c \in Clients : BlobPut(c)
    \/ \E c \in Clients : BlobGet(c)
    \/ \E c \in Clients : CheckAndMark(c)

SpecStores == Init /\ [][NextStores]_vars

(***************************************************************************)
(* The engine (tectonic), an external collaborator: what a run over a      *)
(* workspace can report.                                                    *)
(***************************************************************************)
Contains(seq, tok) == \E i \in 1..Len(seq) : seq[i] = tok

\* the commands no package defines
UndefinedCommands == {"\\mybogus", "\\other"}

\* the stub definition of command c, as one token:
\* \providecommand{c}[1][]{[?c]}
Stub(c) == "\\providecommand" \o c

\* the positions of a source where a command is used that neither a package
\* nor an earlier stub defines
undefined_uses(src) ==
    {i \in 1..Len(src) : /\ src[i] \in UndefinedCommands
                         /\ \A j \in 1..(i - 1) : src[j] # Stub(src[i])}

\* the 1-based line of position i of a source
LineOf(src, i) == 1 + Cardinality({j \in 1..(i - 1) : src[j] = "\n"})

\* one line of the captured log: "[Error] <file>:<line>: <msg>"
LogLine(file, line, msg) == [level |-> "Error", file |-> file, line |-> line, msg |-> msg]

\* the error the engine reports for a main source, or "" when it typesets
engine_error(files, main) ==
    IF main \notin DOMAIN files THEN "input file not found"
    ELSE LET src == files[main] IN
         IF ~from_utf8_ok(src) THEN "invalid UTF-8"
         ELSE IF undefined_uses(src) # {}
              THEN "Undefined control sequence"
         ELSE IF ~Contains(src, BeginDoc) \/ ~Contains(src, EndDoc)
              THEN "Emergency stop"
         ELSE ""

\* the log the status backend captured for that error
engine_logs(files, main) ==
    LET e == engine_error(files, main) IN
    IF e = "" THEN << >>
    ELSE IF main \notin DOMAIN files THEN <<LogLine(main, 0, e)>>
    ELSE LET src == files[main]
             at == IF e = "Undefined control sequence"
                   THEN LineOf(src, CHOOSE i \in undefined_uses(src) :
                                       \A j \in undefined_uses(src) : i <= j)
                   ELSE LineOf(src, Len(src) + 1)
         IN <<LogLine(main, at, e)>>

\* the PDFs a successful run can leave in the workspace
EnginePdfs == {Pdf("p1", 200), Pdf("p2", 400)}

\* fs::read(&pdf_path) fails after a run that reported success
MissingPdf == "No such file or directory"

Ok(v) == [ok |-> TRUE, val |-> v]
Err(e) == [ok |-> FALSE, err |-> e]

\* (result, logs) of the block that opens the bundle, runs a session and
\* reads <stem>.pdf (handlers.rs:128-157): the outcomes it can have
CompileOutcomes(files, main) ==
    {[res |-> Err("Bundle error"), logs |-> << >>]}
    \cup (IF engine_error(files, main) = ""
          THEN {[res |-> Ok(p), logs |-> << >>] : p \in EnginePdfs}
               \cup {[res |-> Err(MissingPdf), logs |-> << >>]}
          ELSE {[res |-> Err(engine_error(files, main)),
                 logs |-> engine_logs(files, main)]})

(***************************************************************************)
(* parse_log_errors (handlers.rs): the captured log, line by line, to a    *)
(* list of diagnostics.                                                    *)
(***************************************************************************)
\* a log line "! <msg>" or "error: <msg>"
BangLine(msg) == [level |-> "!", msg |-> msg]
\* a log line "l.<n> <context>"
LNumLine(n, context) == [level |-> "l.", line |-> n, context |-> context]
\* a log line that opens a file: "(<path>.tex"
FileLine(file) == [level |-> "(", file |-> file]
\* any other line of the log
NoteLine(msg) == [level |-> "Note", msg |-> msg]

\* the message of the lines that are passed over
Halted == "halted on potentially-recoverable error"

\* line 340, direct_regex: ^\[Error\] ([^:]+):(\d+): (.*)
direct_regex(line) == line.level = "Error"
\* line 343, error_regex: ^(?:!|error:)(.*)
error_regex(line) == line.level = "!"
\* line 344, line_regex: ^l\.(\d+)(.*)
line_regex(line) == line.level = "l."
\* line 345, file_regex: \(([^)\n]+\.(?:tex|sty|cls))
file_regex(line) == line.level = "("

\* line 387: "unknown", where a file name is expected
UnknownFile == FileName("unknown", "")

\* std::cmp::min
min(a, b) == IF a < b THEN a ELSE b

\* lines 375-385: the lines i+1 .. min(i+10, len)-1 (counted from 0) are
\* scanned for the first that matches line_regex; i is counted from 1 here
look_ahead(ls, i) ==
    LET hits == {j \in (i + 1)..min(i + 9, Len(ls)) : line_regex(ls[j])}
    IN IF hits = {} THEN None
       ELSE Some(ls[CHOOSE j \in hits : \A k \in hits : j <= k])

\* lines 387-398: the nearest earlier line that opens a file, or "unknown"
look_back(ls, i) ==
    LET hits == {j \in 1..(i - 1) : file_regex(ls[j])}
    IN IF hits = {} THEN UnknownFile
       ELSE ls[CHOOSE j \in hits : \A k \in hits : j >= k].file

\* lines 351-401: what line i of the log adds to the list
diagnostics_at(ls, i) ==
    IF direct_regex(ls[i])
    THEN <<[file |-> ls[i].file, line |-> ls[i].line, message |-> ls[i].msg]>>
    ELSE IF error_regex(ls[i])
    THEN IF ls[i].msg = Halted THEN << >>
         ELSE LET l == look_ahead(ls, i) IN
              IF l.some
              THEN <<[message |-> ls[i].msg, line |-> l.val.line,
                      context |-> l.val.context, file |-> look_back(ls, i)]>>
              ELSE <<[message |-> ls[i].msg, file |-> look_back(ls, i)]>>
    ELSE << >>

RECURSIVE parse_from(_, _)
\* the loop of line 348 from line i on
parse_from(ls, i) ==
    IF i > Len(ls) THEN << >>
    ELSE diagnostics_at(ls, i) \o parse_from(ls, i + 1)

\* parse_log_errors
parse_log_errors(log) == parse_from(log, 1)

\* how many lines lie at most between an error line and the l.<n> line
\* after it in the logs handed to the parser
MaxGap == 10

\* k lines that match none of the patterns
Notes(k) == [i \in 1..k |-> NoteLine("note")]

\* what precedes the error line: nothing, or lines that open files
ParserPrefixes ==
    { << >>,
      <<FileLine(MainTex)>>,
      <<FileLine(MainTex), NoteLine("note"), FileLine(FileName("ch1", "tex"))>> }

\* what follows the error line after the gap
ParserTails ==
    { << >>,
      <<LNumLine(3, "ctx")>>,
      <<LNumLine(3, "ctx"), LNumLine(5, "later")>> }

\* the logs handed to the parser
ParserLogs ==
    { pre \o <<BangLine(msg)>> \o Notes(gap) \o tail :
        pre \in ParserPrefixes, msg \in {"Undefined control sequence", Halted},
        gap \in 0..MaxGap, tail \in ParserTails }
    \cup { <<LogLine(MainTex, 3, "Undefined control sequence")>>,
           <<LogLine(MainTex, 3, "Undefined control sequence"),
             BangLine("Emergency stop"), LNumLine(3, "ctx")>> }

\* parse_log_errors is called
Parse ==
    /\ diag.pc = "idle"
    /\ \E log \in ParserLogs :
         diag' = [pc |-> "done", log |-> log, result |-> parse_log_errors(log)]
    /\ UNCHANGED <<now, ticks, enabled, entries, readers, seen_preambles,
                   blob_cache, call, ncalls, cam_hist, last_put, req, nreq,
                   dirs, last_miss, stray, main_entries, cache_dir, cache_env,
                   heal, cf, sock>>

NextParser == Parse

\* the log parser, called on any log
SpecParser == Init /\ [][NextParser]_vars

(***************************************************************************)
(* SelfHealer::attempt_heal (healer.rs).                                   *)
(***************************************************************************)
\* the commands of PROTECTED_COMMANDS that occur in the documents
PROTECTED_COMMANDS == {"\\documentclass", "\\textbf", BeginDoc, EndDoc}

\* what the regex \\([a-zA-Z@]+) matches: the tokens that are commands
is_command(tok) == tok \in PROTECTED_COMMANDS \cup UndefinedCommands

RECURSIVE split_lines(_, _)
\* the lines of a text, cur being the line under construction
split_lines(text, cur) ==
    IF text = << >> THEN (IF cur = << >> THEN << >> ELSE <<cur>>)
    ELSE IF Head(text) = "\n" THEN <<cur>> \o split_lines(Tail(text), << >>)
    ELSE split_lines(Tail(text), Append(cur, Head(text)))

\* content.lines()
lines(content) == split_lines(content, << >>)

\* the first log line the regex of line 55 matches, if any
undefined_at(logs) ==
    LET hits == {i \in 1..Len(logs) : logs[i].level = "Error"
                                      /\ logs[i].msg = "Undefined control sequence"}
    IN IF hits = {} THEN None
       ELSE Some(logs[CHOOSE i \in hits : \A j \in hits : i <= j].line)

\* line_num.saturating_sub(1)
saturating_sub(a, b) == IF a > b THEN a - b ELSE 0

\* a selection that takes every command of the line
cmds_to_patch_all(line_str) == SelectSeq(line_str, is_command)

\* lines 64-73: the commands of a line that are not protected
cmds_to_patch(line_str) ==
    SelectSeq(line_str, LAMBDA tok : is_command(tok) /\ tok \notin PROTECTED_COMMANDS)

\* a patch that defines the first command only
patches_for_first(cmds) ==
    IF cmds = << >> THEN << >> ELSE <<"\n", Stub(Head(cmds))>>

RECURSIVE patches_for(_)
\* lines 76-85: one \providecommand per command, each on a line of its own
patches_for(cmds) ==
    IF cmds = << >> THEN << >>
    ELSE <<"\n", Stub(Head(cmds))>> \o patches_for(Tail(cmds))

\* an insertion that overwrites the element at pos
insert_str_over(text, pos, ins) ==
    SubSeq(text, 1, pos - 1) \o ins \o SubSeq(text, pos + 1, Len(text))

\* String::insert_str at the position before element pos
insert_str(text, pos, ins) ==
    SubSeq(text, 1, pos - 1) \o ins \o SubSeq(text, pos, Len(text))

\* the last position of tok in seq
rfind(seq, tok) ==
    CHOOSE i \in 1..Len(seq) : seq[i] = tok /\ \A j \in (i + 1)..Len(seq) : seq[j] # tok

\* lines 42-46
fix_missing_end(content) ==
    IF ~Contains(content, EndDoc) /\ Contains(content, BeginDoc)
    THEN [text |-> content \o <<"\n", EndDoc, "\n">>, applied |-> TRUE]
    ELSE [text |-> content, applied |-> FALSE]

\* lines 55-102: the patch is computed from the original content and
\* inserted into the text healed so far
fix_undefined(content, healed, logs) ==
    LET at == undefined_at(logs)
        ls == lines(content)
        n == IF at.some THEN saturating_sub(at.val, 1) + 1 ELSE 0
        cmds == IF at.some /\ n <= Len(ls) THEN cmds_to_patch(ls[n]) ELSE << >>
    IN IF cmds = << >> THEN [text |-> healed, applied |-> FALSE]
       ELSE [text |-> IF Contains(healed, BeginDoc)
                      THEN insert_str(healed, find(healed, BeginDoc), patches_for(cmds))
                      ELSE IF Contains(healed, "\n")
                      THEN insert_str(healed, find(healed, "\n"), patches_for(cmds))
                      ELSE patches_for(cmds) \o healed,
             applied |-> TRUE]

\* a rule that always appends the brace at the end
fix_runaway_at_end(healed, logs) ==
    IF \E i \in 1..Len(logs) : logs[i].msg \in {"Runaway argument", "File ended while scanning"}
    THEN [text |-> healed \o <<"\n", "}", "\n">>, applied |-> TRUE]
    ELSE [text |-> healed, applied |-> FALSE]

\* lines 108-117
fix_runaway(healed, logs) ==
    IF \E i \in 1..Len(logs) : logs[i].msg \in {"Runaway argument", "File ended while scanning"}
    THEN [text |-> IF Contains(healed, EndDoc)
                   THEN insert_str(healed, rfind(healed, EndDoc), <<"\n", "}", "\n">>)
                   ELSE healed \o <<"\n", "}", "\n">>,
          applied |-> TRUE]
    ELSE [text |-> healed, applied |-> FALSE]

\* a healer that hands the source back as a patch whatever the log says
attempt_heal_unchanged(content, logs) == Some(content)

\* SelfHealer::attempt_heal
attempt_heal(content, logs) ==
    LET f1 == fix_missing_end(content)
        f2 == fix_undefined(content, f1.text, logs)
        f3 == fix_runaway(f2.text, logs)
    IN IF f1.applied \/ f2.applied \/ f3.applied THEN Some(f3.text) ELSE None

\* how many lines the sources handed to the healer have at most
MaxLines == 3

\* the lines sources are made of
HealLines ==
    { <<"\\documentclass">>, <<BeginDoc>>, <<EndDoc>>, <<"\\mybogus">>,
      <<"\\textbf", "x">>, <<"\\textbf", "\\mybogus">>, <<"\\mybogus", "\\other">> }

RECURSIVE join_lines(_)
\* the text made of the lines ls, each ended by a newline
join_lines(ls) ==
    IF ls = << >> THEN << >> ELSE Head(ls) \o <<"\n">> \o join_lines(Tail(ls))

\* the sources handed to the healer: up to MaxLines lines, each ended by a
\* newline, or one line that no newline ends
HealContents ==
    UNION {{join_lines(ls) : ls \in [1..n -> HealLines]} : n \in 1..MaxLines}
    \cup HealLines

\* the logs handed to the healer
HealLogs ==
    { << >> }
    \cup {<<LogLine(MainTex, n, "Undefined control sequence")>> : n \in 0..(MaxLines + 1)}
    \cup {<<LogLine(MainTex, MaxLines, "Emergency stop")>>,
          <<LogLine(MainTex, 1, "Runaway argument")>>,
          <<LogLine(MainTex, 1, "File ended while scanning")>>,
          <<LogLine(MainTex, 1, "Runaway argument"),
            LogLine(MainTex, 2, "Undefined control sequence")>>}

\* SelfHealer::attempt_heal is called
Heal ==
    /\ heal.pc = "idle"
    /\ \E content \in HealContents, logs \in HealLogs :
         heal' = [pc |-> "done", content |-> content, logs |-> logs,
                  result |-> attempt_heal(content, logs)]
    /\ UNCHANGED <<now, ticks, enabled, entries, readers, seen_preambles,
                   blob_cache, call, ncalls, cam_hist, last_put, req, nreq,
                   dirs, last_miss, stray, main_entries, cache_dir, cache_env, cf,
                   diag, sock>>

NextHealer == Heal

\* the healer, called on any source and log
SpecHealer == Init /\ [][NextHealer]_vars

(***************************************************************************)
(* Compiler::compile_file (compiler.rs): one engine pass and, after a      *)
(* failure the healer can patch, a second one.                             *)
(***************************************************************************)
\* a document that uses a command nothing defines
BogusDoc == <<"\\documentclass", "\n", BeginDoc, "\n", "\\mybogus", "\n", EndDoc>>
\* a document that uses two such commands, on two lines
TwoBogusDoc == <<"\\documentclass", "\n", BeginDoc, "\n", "\\mybogus", "\n",
                 "\\other", "\n", EndDoc>>
\* the same without its terminator
BogusNoEndDoc == <<"\\documentclass", "\n", BeginDoc, "\n", "\\mybogus", "\n">>
\* text that is no document
NoDoc == <<"hello">>

\* the main source files compile_file is called on
CompilerSources == {GoodDoc, NoEndDoc, BogusDoc, TwoBogusDoc, BogusNoEndDoc, NoDoc, <<BadByte>>}

\* the directory of main_tex_path when the call is made: the main file is
\* there, or it is missing
CompilerDirs == {(MainTex :> src) : src \in CompilerSources} \cup {<< >>}

\* fs::read_to_string(main_tex_path), line 59
read_to_string(files, path) ==
    IF path \in DOMAIN files /\ from_utf8_ok(files[path]) THEN Some(files[path]) ELSE None

\* line 65: "\n\n--- [Tachyon Self-Healing] ---\nErrors detected. Applying
\* automated fixes and retrying...\n"
RetryBanner == NoteLine("--- [Tachyon Self-Healing] --- Errors detected. Applying automated fixes and retrying...")
\* line 72: "\n[Self-Healing] FIXED! Compilation succeeded after auto-patching.\n"
FixedTrailer == NoteLine("[Self-Healing] FIXED! Compilation succeeded after auto-patching.")

\* a retry that returns the second pass's log alone
retry_logs_second_only(logs, retry) == retry.logs

\* lines 67-73: the log after the second pass, logs being the first pass's
\* log with the banner
retry_logs(logs, retry) ==
    logs \o retry.logs \o (IF retry.res.ok THEN <<FixedTrailer>> ELSE << >>)

\* lines 56: let (mut res, mut logs) = Self::internal_compile(...)
CompileFileFirstPass ==
    /\ cf.pc = "idle"
    /\ \E files \in CompilerDirs :
       \E out \in CompileOutcomes(files, MainTex) :
         cf' = [pc |-> IF out.res.ok THEN "returned" ELSE "failed",
                original |-> files, files |-> files, first |-> out,
                res |-> out.res, logs |-> out.logs, passes |-> 1, heals |-> 0]
    /\ UNCHANGED <<now, ticks, enabled, entries, readers, seen_preambles,
                   blob_cache, call, ncalls, cam_hist, last_put, req, nreq,
                   dirs, last_miss, stray, main_entries, cache_dir, cache_env, heal,
                   diag, sock>>

\* lines 58-65: the main source is read and handed to the healer with the
\* first pass's log; a patch is written over the main source, the outcome of
\* the write being ignored, and the banner is appended. Without a patch the
\* first pass's result is returned, line 77
CompileFileHeal ==
    /\ cf.pc = "failed"
    /\ LET content == read_to_string(cf.files, MainTex) IN
       IF content.some
       THEN LET fixed_content == attempt_heal(content.val, cf.logs) IN
            IF fixed_content.some
            THEN \E wrote \in BOOLEAN :
                   cf' = [cf EXCEPT !.pc = "retry", !.heals = @ + 1,
                                    !.files = IF wrote
                                              THEN Insert(@, MainTex, fixed_content.val)
                                              ELSE @,
                                    !.logs = @ \o <<RetryBanner>>]
                         @@ [patch |-> fixed_content.val, wrote |-> wrote]
            ELSE cf' = [cf EXCEPT !.pc = "returned", !.heals = @ + 1]
       ELSE cf' = [cf EXCEPT !.pc = "returned"]
    /\ UNCHANGED <<now, ticks, enabled, entries, readers, seen_preambles,
                   blob_cache, call, ncalls, cam_hist, last_put, req, nreq,
                   dirs, last_miss, stray, main_entries, cache_dir, cache_env, heal,
                   diag, sock>>

\* lines 67-77: the second pass; its result is the one returned
CompileFileSecondPass ==
    /\ cf.pc = "retry"
    /\ \E retry \in CompileOutcomes(cf.files, MainTex) :
         cf' = [cf EXCEPT !.pc = "returned", !.passes = @ + 1,
                          !.res = retry.res,
                          !.logs = retry_logs(@, retry)]
               @@ [second |-> retry]
    /\ UNCHANGED <<now, ticks, enabled, entries, readers, seen_preambles,
                   blob_cache, call, ncalls, cam_hist, last_put, req, nreq,
                   dirs, last_miss, stray, main_entries, cache_dir, cache_env, heal,
                   diag, sock>>

NextCompiler ==
    \/ CompileFileFirstPass
    \/ CompileFileHeal
    \/ CompileFileSecondPass

\* compile_file, called on any main source
SpecCompiler == Init /\ [][NextCompiler]_vars

(***************************************************************************)
(* Workspaces: TempDir::new_in and its drop.                               *)
(***************************************************************************)
\* TempDir::new_in(&temp_base): a fresh, empty directory
create_dir(ds, ws) == Insert(ds, ws, << >>)

\* a drop that leaves the directory behind
release_leaks(ds, ws) == ds

\* Drop for TempDir: the directory and its files are removed
release(ds, ws) == Remove(ds, ws)

\* Path::is_absolute
is_absolute(name) ==
    "dir" \in DOMAIN name /\ name.dir # << >> /\ name.dir[1] = "/"

\* some prefix of the components has more ".." than directories to leave
climbs(name) ==
    /\ "dir" \in DOMAIN name
    /\ \E n \in 1..Len(name.dir) :
         Cardinality({i \in 1..n : name.dir[i] = ".."})
           > Cardinality({i \in 1..n : name.dir[i] \notin {"..", "/"}})

\* temp_dir.path().join(name): whether the path lies under temp_dir.path();
\* an absolute name replaces the directory, ".." components are kept as
\* they are and the file system follows them
stays_inside(name) == ~is_absolute(name) /\ ~climbs(name)

\* fs::write(temp_dir.path().join(name), data); a path outside the workspace
\* directories changes none of them
write_file(ds, ws, name, data) ==
    IF ws \in DOMAIN ds /\ stays_inside(name)
    THEN [ds EXCEPT ![ws] = Insert(ds[ws], name, data)] ELSE ds

\* a file write or an engine run of request r that finds no workspace
Stray(r) == IF r \in DOMAIN dirs THEN stray ELSE stray \cup {r}

\* request r begins
Begins(r) == req[r].pc = "new" /\ r = nreq + 1 /\ nreq' = r

\* the response of a request, as the client sees it; the handler returns and
\* its TempDir is dropped
Answered(r, fields) == [pc |-> "answered"] @@ fields

(***************************************************************************)
(* POST /compile, handlers.rs compile_handler.                             *)
(***************************************************************************)
\* lines 42-58: the locals are set and the workspace is created
HttpStart(r) ==
    /\ Begins(r)
    /\ \E up \in Uploads :
         req' = [req EXCEPT ![r] =
                   [kind |-> "http", pc |-> "ingest", upload |-> up, idx |-> 1,
                    files_received |-> 0, main_tex_data |-> << >>,
                    all_input_data |-> << >>,
                    main_tex_path_relative |-> MainTex, outside |-> {}]]
    /\ dirs' = create_dir(dirs, r)
    /\ UNCHANGED <<now, ticks, enabled, entries, readers, seen_preambles,
                   blob_cache, cam_hist, last_put, last_miss, stray>>
    /\ UNCHANGED avars

\* line 57: TempDir::new_in fails
HttpStartFail(r) ==
    /\ Begins(r)
    /\ \E up \in Uploads :
         req' = [req EXCEPT ![r] =
                   Answered(r, [kind |-> "http", upload |-> up, status |-> 500,
                                error |-> "Failed to create temp dir"])]
    /\ UNCHANGED <<now, ticks, enabled, entries, readers, seen_preambles,
                   blob_cache, cam_hist, last_put, dirs, last_miss, stray>>
    /\ UNCHANGED avars

\* an ingestion that puts each part in front of the bytes gathered so far
after_part_prepend(q, part) ==
    [q EXCEPT !.idx = @ + 1,
              !.files_received = @ + 1,
              !.all_input_data = part.data \o @,
              !.outside = IF stays_inside(part.name) THEN @ ELSE @ \cup {part.name},
              !.main_tex_data = IF ends_with(part.name, "tex") THEN part.data ELSE @,
              !.main_tex_path_relative = IF ends_with(part.name, "tex") THEN part.name ELSE @]

\* the locals after one part is taken in, lines 74-88
after_part(q, part) ==
    [q EXCEPT !.idx = @ + 1,
              !.files_received = @ + 1,
              !.all_input_data = @ \o part.data,
              !.outside = IF stays_inside(part.name) THEN @ ELSE @ \cup {part.name},
              !.main_tex_data = IF ends_with(part.name, "tex") THEN part.data ELSE @,
              !.main_tex_path_relative = IF ends_with(part.name, "tex") THEN part.name ELSE @]

\* an ingestion that passes over a part it cannot take in
ingest_skipped(q, error) == [q EXCEPT !.idx = @ + 1]

\* lines 64-67 and 90-93: the 400 response to a part that cannot be taken in
ingest_failed(q, error) ==
    [pc |-> "answered", kind |-> "http", upload |-> q.upload, status |-> 400,
     error |-> error]

\* lines 60-95, one turn of the loop: the next part is read and written
HttpNextField(r) ==
    /\ req[r].pc = "ingest" /\ req[r].kind = "http"
    /\ req[r].idx <= Len(req[r].upload)
    /\ LET part == req[r].upload[req[r].idx] IN
       CASE part.kind = "file" ->
              /\ req' = [req EXCEPT ![r] = after_part(req[r], part)]
              /\ dirs' = write_file(dirs, r, part.name, part.data)
              /\ stray' = Stray(r)
         [] part.kind = "badframe" ->
              /\ req' = [req EXCEPT ![r] = ingest_failed(req[r], "Multipart error")]
              /\ dirs' = release(dirs, r)
              /\ UNCHANGED stray
         [] part.kind = "badread" ->
              /\ req' = [req EXCEPT ![r] = ingest_failed(req[r], "Failed to read file")]
              /\ dirs' = release(dirs, r)
              /\ UNCHANGED stray
    /\ UNCHANGED <<now, ticks, enabled, entries, readers, seen_preambles,
                   blob_cache, cam_hist, last_put, nreq, last_miss>>
    /\ UNCHANGED avars

\* lines 77-83: create_dir_all or fs::write fails
HttpWriteFail(r) ==
    /\ req[r].pc = "ingest" /\ req[r].kind = "http"
    /\ req[r].idx <= Len(req[r].upload)
    /\ req[r].upload[req[r].idx].kind = "file"
    /\ req' = [req EXCEPT ![r] =
                 Answered(r, [kind |-> "http", upload |-> req[r].upload,
                              status |-> 500, error |-> "Failed to write file"])]
    /\ dirs' = release(dirs, r)
    /\ UNCHANGED <<now, ticks, enabled, entries, readers, seen_preambles,
                   blob_cache, cam_hist, last_put, nreq, last_miss, stray>>
    /\ UNCHANGED avars

\* the task of request r, as a holder of locks
Task(r) == "request " \o ToString(r)

\* the files of workspace ws, none when the directory does not exist
files_of(ds, ws) == IF ws \in DOMAIN ds THEN ds[ws] ELSE << >>

\* <stem>.pdf in the output directory
pdf_name(main) == FileName(main.stem, "pdf")

\* lines 96-99: the fingerprint is taken and get_pdf is called; on a hit the
\* read lock is held and the clock has been read
HttpLookup(r) ==
    /\ req[r].pc = "ingest" /\ req[r].kind = "http"
    /\ req[r].idx > Len(req[r].upload)
    /\ LET input_hash == hash_input(req[r].all_input_data)
           q == [kind |-> "http", upload |-> req[r].upload,
                 files_received |-> req[r].files_received,
                 main_tex_data |-> req[r].main_tex_data,
                 main |-> req[r].main_tex_path_relative,
                 input_hash |-> input_hash, seen |-> DOMAIN entries]
       IN IF enabled /\ input_hash \in DOMAIN entries
          THEN /\ req' = [req EXCEPT ![r] = [pc |-> "hit", now |-> now] @@ q]
               /\ readers' = readers \cup {Task(r)}
          ELSE /\ req' = [req EXCEPT ![r] = [pc |-> "hmr"] @@ q]
               /\ UNCHANGED readers
    /\ UNCHANGED <<now, ticks, enabled, entries, seen_preambles, blob_cache,
                   cam_hist, last_put, nreq, dirs, last_miss, stray>>
    /\ UNCHANGED avars

\* what every answer of a request that got past ingestion carries
Common(q) == [kind |-> q.kind, upload |-> q.upload, main |-> q.main,
              files_received |-> q.files_received,
              input_hash |-> q.input_hash, seen |-> q.seen]

\* services.rs:91-93 and handlers.rs:100-109: the 200 HIT response
HttpHit(r) ==
    /\ req[r].pc = "hit" /\ req[r].kind = "http"
    /\ entries' = touch(entries, req[r].input_hash, req[r].now)
    /\ readers' = readers \ {Task(r)}
    /\ LET hit == hit_value(entries, req[r].input_hash).val IN
       req' = [req EXCEPT ![r] =
                 Answered(r, [status |-> 200, cache |-> "HIT",
                              time |-> hit.compile_time_ms,
                              body |-> hit.pdf_data, passes |-> 0]
                             @@ Common(req[r]))]
    /\ dirs' = release(dirs, r)
    /\ UNCHANGED <<now, ticks, enabled, seen_preambles, blob_cache, cam_hist,
                   last_put, nreq, last_miss, stray>>
    /\ UNCHANGED avars

\* lines 112-123: the HMR status of the main file
HttpHmr(r) ==
    /\ req[r].pc = "hmr" /\ req[r].kind = "http"
    /\ LET content == req[r].main_tex_data
           preamble == extract_preamble(content)
       IN IF from_utf8_ok(content) /\ preamble.some
          THEN LET preamble_hash == hash_preamble(preamble.val)
                   ret == check_and_mark_ret(seen_preambles, preamble_hash)
               IN /\ seen_preambles' = check_and_mark_set(seen_preambles, preamble_hash)
                  /\ cam_hist' = cam_record(preamble_hash, ret)
                  /\ req' = [req EXCEPT ![r] =
                               [pc |-> "engine",
                                hmr_status |-> IF ret THEN "HIT" ELSE "MISS"]
                               @@ Common(req[r])]
          ELSE /\ req' = [req EXCEPT ![r] =
                            [pc |-> "engine",
                             hmr_status |-> IF from_utf8_ok(content)
                                            THEN "NONE" ELSE "ERROR"]
                            @@ Common(req[r])]
               /\ UNCHANGED <<seen_preambles, cam_hist>>
    /\ UNCHANGED <<now, ticks, enabled, entries, readers, blob_cache, last_put,
                   nreq, dirs, last_miss, stray>>
    /\ UNCHANGED avars

\* a failure branch that stores an empty PDF under the fingerprint
cache_after_err_stored(es, hash, t) == Insert(es, hash, new_entry(Pdf("none", 0), 0, t))

\* line 173, the Err branch: the result cache is not touched
cache_after_err(es, hash, t) == es

\* lines 125-159 and 172: one run of the engine over the workspace; a failure
\* is answered at once, a success goes on to put_pdf, whose first act is to
\* read the clock (services.rs:102)
HttpEngine(r) ==
    /\ req[r].pc = "engine" /\ req[r].kind = "http"
    /\ stray' = Stray(r)
    /\ \E out \in CompileOutcomes(files_of(dirs, r), req[r].main),
          compile_time_ms \in CompileTimes :
         IF out.res.ok
         THEN /\ req' = [req EXCEPT ![r] =
                           [pc |-> "put", hmr_status |-> req[r].hmr_status,
                            pdf_data |-> out.res.val,
                            compile_time_ms |-> compile_time_ms, now |-> now]
                           @@ Common(req[r])]
              /\ dirs' = write_file(dirs, r, pdf_name(req[r].main), out.res.val)
              /\ UNCHANGED entries
         ELSE /\ req' = [req EXCEPT ![r] =
                           Answered(r, [status |-> 500, error |-> out.res.err,
                                        logs |-> out.logs, passes |-> 1,
                                        source |-> files_of(dirs, r)]
                                       @@ Common(req[r]))]
              /\ dirs' = release(dirs, r)
              /\ entries' = cache_after_err(entries, req[r].input_hash, now)
    /\ UNCHANGED <<now, ticks, enabled, readers, seen_preambles,
                   blob_cache, cam_hist, last_put, nreq, last_miss>>
    /\ UNCHANGED avars

\* the history of successful compiles after one for hash
miss_record(hash, pdf_data, compile_time_ms) ==
    Insert(last_miss, hash, [pdf_data |-> pdf_data, compile_time_ms |-> compile_time_ms])

\* services.rs:103-121 and handlers.rs:161-171: the PDF is stored under the
\* write lock and the 200 MISS response is returned
HttpPut(r) ==
    /\ req[r].pc = "put" /\ req[r].kind = "http"
    /\ IF enabled
       THEN /\ readers = {}
            /\ \E victim \in victims(entries) :
                 entries' = put_pdf(entries, req[r].input_hash, req[r].pdf_data,
                                    req[r].compile_time_ms, req[r].now, victim)
       ELSE UNCHANGED entries
    /\ req' = [req EXCEPT ![r] =
                 Answered(r, [status |-> 200, cache |-> "MISS",
                              hmr |-> req[r].hmr_status,
                              time |-> req[r].compile_time_ms,
                              body |-> req[r].pdf_data, passes |-> 1]
                             @@ Common(req[r]))]
    /\ last_miss' = miss_record(req[r].input_hash, req[r].pdf_data,
                                req[r].compile_time_ms)
    /\ dirs' = release(dirs, r)
    /\ UNCHANGED <<now, ticks, enabled, readers, seen_preambles, blob_cache,
                   cam_hist, last_put, nreq, stray>>
    /\ UNCHANGED avars

NextHttp ==
    \/ Tick
    \/ \E r \in Requests : HttpStart(r)
    \/ \E r \in Requests : HttpStartFail(r)
    \/ \E r \in Requests : HttpNextField(r)
    \/ \E r \in Requests : HttpWriteFail(r)
    \/ \E r \in Requests : HttpLookup(r)
    \/ \E r \in Requests : HttpHit(r)
    \/ \E r \in Requests : HttpHmr(r)
    \/ \E r \in Requests : HttpEngine(r)
    \/ \E r \in Requests : HttpPut(r)

\* POST /compile of handlers.rs, served concurrently
SpecHttp == Init /\ [][NextHttp]_vars

(***************************************************************************)
(* The compile tool of the MCP server, mcp.rs TachyonMcpServer::compile.   *)
(***************************************************************************)
\* the arguments tool callers pass: main and a map from file name to content
McpArgsSet ==
    { [main |-> None, files |-> (MainTex :> GoodDoc)],
      [main |-> None, files |-> (MainTex :> NoEndDoc)],
      [main |-> Some(FileName("a", "tex")),
       files |-> (FileName("a", "tex") :> DocA) @@ (FileName("b", "tex") :> DocB)] }

\* the orders in which iterating a HashMap can yield the keys S: the order
\* depends on the map's random hasher state, which differs from map to map
Orders(S) ==
    {o \in [1..Cardinality(S) -> S] : \A i, j \in 1..Cardinality(S) : o[i] = o[j] => i = j}

RECURSIVE concat_contents(_, _)
\* all_input_data after the loop of lines 83-92 visited the names in order
concat_contents(files, order) ==
    IF order = << >> THEN << >>
    ELSE files[Head(order)] \o concat_contents(files, Tail(order))

\* args.main.unwrap_or_else(|| "main.tex")
main_or_default(main) == IF main.some THEN main.val ELSE MainTex

McpCommon(q) == [kind |-> q.kind, args |-> q.args, main |-> q.main,
                 input_hash |-> q.input_hash, seen |-> q.seen]

\* lines 67-97: the workspace is created, every file is written in the
\* map's iteration order, the fingerprint is taken and get_pdf is called
McpStart(r) ==
    /\ Begins(r)
    /\ \E args \in McpArgsSet :
       \E order \in Orders(DOMAIN args.files) :
         LET input_hash == hash_input(concat_contents(args.files, order))
             q == [kind |-> "mcp", args |-> args,
                   main |-> main_or_default(args.main),
                   input_hash |-> input_hash, seen |-> DOMAIN entries]
         IN /\ dirs' = Insert(dirs, r, args.files)
            /\ IF enabled /\ input_hash \in DOMAIN entries
               THEN /\ req' = [req EXCEPT ![r] = [pc |-> "hit", now |-> now] @@ q]
                    /\ readers' = readers \cup {Task(r)}
               ELSE /\ req' = [req EXCEPT ![r] = [pc |-> "engine"] @@ q]
                    /\ UNCHANGED readers
    /\ UNCHANGED <<now, ticks, enabled, entries, seen_preambles, blob_cache,
                   cam_hist, last_put, last_miss, stray>>
    /\ UNCHANGED avars

\* lines 78-80 and 88-90: TempDir::new_in or a file write fails
McpStartFail(r) ==
    /\ Begins(r)
    /\ \E args \in McpArgsSet, error \in {"Failed to create temp dir", "Failed to write file"} :
         req' = [req EXCEPT ![r] =
                   Answered(r, [kind |-> "mcp", args |-> args,
                                status |-> "internal_error", error |-> error])]
    /\ UNCHANGED <<now, ticks, enabled, entries, readers, seen_preambles,
                   blob_cache, cam_hist, last_put, dirs, last_miss, stray>>
    /\ UNCHANGED avars

\* services.rs:91-93 and mcp.rs:98-107: the cached result is returned
McpHit(r) ==
    /\ req[r].pc = "hit" /\ req[r].kind = "mcp"
    /\ entries' = touch(entries, req[r].input_hash, req[r].now)
    /\ readers' = readers \ {Task(r)}
    /\ LET hit == hit_value(entries, req[r].input_hash).val IN
       req' = [req EXCEPT ![r] =
                 Answered(r, [status |-> "success", cache |-> "HIT",
                              time |-> hit.compile_time_ms,
                              body |-> hit.pdf_data, passes |-> 0]
                             @@ McpCommon(req[r]))]
    /\ dirs' = release(dirs, r)
    /\ UNCHANGED <<now, ticks, enabled, seen_preambles, blob_cache, cam_hist,
                   last_put, nreq, last_miss, stray>>
    /\ UNCHANGED avars

\* lines 110-143 and 158-164: one run of the engine; a failure is answered
\* with the error and the log
McpEngine(r) ==
    /\ req[r].pc = "engine" /\ req[r].kind = "mcp"
    /\ stray' = Stray(r)
    /\ \E out \in CompileOutcomes(files_of(dirs, r), req[r].main),
          compile_time_ms \in CompileTimes :
         IF out.res.ok
         THEN /\ req' = [req EXCEPT ![r] =
                           [pc |-> "put", pdf_data |-> out.res.val,
                            compile_time_ms |-> compile_time_ms, now |-> now]
                           @@ McpCommon(req[r])]
              /\ dirs' = write_file(dirs, r, pdf_name(req[r].main), out.res.val)
         ELSE /\ req' = [req EXCEPT ![r] =
                           Answered(r, [status |-> "error", error |-> out.res.err,
                                        logs |-> out.logs, passes |-> 1,
                                        source |-> files_of(dirs, r)]
                                       @@ McpCommon(req[r]))]
              /\ dirs' = release(dirs, r)
    /\ UNCHANGED <<now, ticks, enabled, entries, readers, seen_preambles,
                   blob_cache, cam_hist, last_put, nreq, last_miss>>
    /\ UNCHANGED avars

\* services.rs:103-121 and mcp.rs:146-157: the PDF is stored and returned
McpPut(r) ==
    /\ req[r].pc = "put" /\ req[r].kind = "mcp"
    /\ IF enabled
       THEN /\ readers = {}
            /\ \E victim \in victims(entries) :
                 entries' = put_pdf(entries, req[r].input_hash, req[r].pdf_data,
                                    req[r].compile_time_ms, req[r].now, victim)
       ELSE UNCHANGED entries
    /\ req' = [req EXCEPT ![r] =
                 Answered(r, [status |-> "success", cache |-> "MISS",
                              time |-> req[r].compile_time_ms,
                              body |-> req[r].pdf_data, passes |-> 1]
                             @@ McpCommon(req[r]))]
    /\ last_miss' = miss_record(req[r].input_hash, req[r].pdf_data,
                                req[r].compile_time_ms)
    /\ dirs' = release(dirs, r)
    /\ UNCHANGED <<now, ticks, enabled, readers, seen_preambles, blob_cache,
                   cam_hist, last_put, nreq, stray>>
    /\ UNCHANGED avars

NextMcp ==
    \/ Tick
    \/ \E r \in Requests : McpStart(r)
    \/ \E r \in Requests : McpStartFail(r)
    \/ \E r \in Requests : McpHit(r)
    \/ \E r \in Requests : McpEngine(r)
    \/ \E r \in Requests : McpPut(r)

\* the compile tool, called concurrently
SpecMcp == Init /\ [][NextMcp]_vars

(***************************************************************************)
(* A project message on the WebSocket, handlers.rs handle_socket.          *)
(***************************************************************************)
\* WsFileContent::Raw holding text that is not valid base64
RawText(bytes) == [variant |-> "Raw", enc |-> "text", bytes |-> bytes]
\* WsFileContent::Raw holding the base64 encoding of bytes
RawBase64(bytes) == [variant |-> "Raw", enc |-> "base64", bytes |-> bytes]
\* WsFileContent::HashRef
HashRef(value) == [variant |-> "HashRef", content_type |-> "image", value |-> value]

\* general_purpose::STANDARD.decode(data)
decode(data) == IF data.enc = "base64" THEN Ok(data.bytes) ELSE Err("invalid base64")

\* the bytes of the string itself, as fs::write(&path, data) writes them
as_bytes(data) == IF data.enc = "text" THEN data.bytes ELSE <<"base64">> \o data.bytes

FigPng == FileName("fig", "png")
\* a bibliography whose text happens to be valid base64
RefsBib == FileName("refs", "bib")

\* the project messages clients send
WsProjects ==
    { [main |-> None, files |-> (MainTex :> RawText(GoodDoc))],
      [main |-> None, files |-> (MainTex :> RawText(NoEndDoc))],
      [main |-> None, files |-> (MainTex :> RawText(GoodDoc)) @@ (FigPng :> RawBase64(Png))],
      [main |-> None,
       files |-> (MainTex :> RawText(GoodDoc)) @@ (FigPng :> HashRef(hash_hex(xxh64(Png, 0))))],
      [main |-> None,
       files |-> (MainTex :> RawText(GoodDoc)) @@ (RefsBib :> RawBase64(<<"bib">>))] }

\* lines 197-217, for one project: its workspace is created
StartProject(r, project) ==
    /\ Begins(r)
    /\ req' = [req EXCEPT ![r] =
                 [kind |-> "ws", pc |-> "files", project |-> project,
                  remaining |-> DOMAIN project.files,
                  uploaded_hashes |-> << >>]]
    /\ dirs' = create_dir(dirs, r)
    /\ UNCHANGED <<now, ticks, enabled, entries, readers, seen_preambles,
                   blob_cache, cam_hist, last_put, last_miss, stray>>
    /\ UNCHANGED wvars

\* lines 208-214, for one project: TempDir::new_in fails and a compile_error
\* frame is sent
StartProjectFail(r, project) ==
    /\ Begins(r)
    /\ req' = [req EXCEPT ![r] =
                 Answered(r, [kind |-> "ws", project |-> project,
                              type |-> "compile_error",
                              error |-> "Failed to create temp dir"])]
    /\ UNCHANGED <<now, ticks, enabled, entries, readers, seen_preambles,
                   blob_cache, cam_hist, last_put, dirs, last_miss, stray>>
    /\ UNCHANGED wvars

\* lines 196-217: the workspace of the message is created
WsStart(r) ==
    /\ \E project \in WsProjects : StartProject(r, project)
    /\ UNCHANGED sock

\* lines 208-214: TempDir::new_in fails and a compile_error frame is sent
WsStartFail(r) ==
    /\ \E project \in WsProjects : StartProjectFail(r, project)
    /\ UNCHANGED sock

\* lines 218-236, one turn of the loop over project.files, whose order is
\* the map's
WsNextFile(r) ==
    /\ req[r].pc = "files" /\ req[r].kind = "ws"
    /\ \E name \in req[r].remaining :
         LET content == req[r].project.files[name]
             q == [req[r] EXCEPT !.remaining = @ \ {name}]
         IN CASE content.variant = "Raw" /\ (\E ext \in {"tex", "sty", "cls"} : ends_with(name, ext)) ->
                   /\ dirs' = write_file(dirs, r, name, as_bytes(content))
                   /\ stray' = Stray(r)
                   /\ req' = [req EXCEPT ![r] = q]
                   /\ UNCHANGED <<blob_cache, last_put>>
              [] content.variant = "Raw" /\ (\A ext \in {"tex", "sty", "cls"} : ~ends_with(name, ext))
                   /\ decode(content).ok ->
                   LET binary == decode(content).val
                       hash_hex_ == hash_hex(xxh64(binary, 0))
                   IN /\ blob_cache' = blob_put(blob_cache, hash_hex_, binary)
                      /\ last_put' = Insert(last_put, hash_hex_, binary)
                      /\ dirs' = write_file(dirs, r, name, binary)
                      /\ stray' = Stray(r)
                      /\ req' = [req EXCEPT ![r] =
                                   [q EXCEPT !.uploaded_hashes = Insert(@, name, hash_hex_)]]
              [] content.variant = "Raw" /\ (\A ext \in {"tex", "sty", "cls"} : ~ends_with(name, ext))
                   /\ ~decode(content).ok ->
                   /\ dirs' = write_file(dirs, r, name, as_bytes(content))
                   /\ stray' = Stray(r)
                   /\ req' = [req EXCEPT ![r] = q]
                   /\ UNCHANGED <<blob_cache, last_put>>
              [] content.variant = "HashRef" ->
                   LET binary == blob_get(blob_cache, content.value)
                   IN /\ IF binary.some
                         THEN /\ dirs' = write_file(dirs, r, name, binary.val)
                              /\ stray' = Stray(r)
                         ELSE UNCHANGED <<dirs, stray>>
                      /\ req' = [req EXCEPT ![r] = q]
                      /\ UNCHANGED <<blob_cache, last_put>>
    /\ UNCHANGED <<now, ticks, enabled, entries, readers, seen_preambles,
                   cam_hist, nreq, last_miss>>
    /\ UNCHANGED avars

\* lines 238-291: one run of the engine, and the frame that reports it
WsEngine(r) ==
    /\ req[r].pc = "files" /\ req[r].kind = "ws"
    /\ req[r].remaining = {}
    /\ stray' = Stray(r)
    /\ LET main_tex == main_or_default(req[r].project.main) IN
       \E out \in CompileOutcomes(files_of(dirs, r), main_tex),
          duration \in CompileTimes :
         IF out.res.ok
         THEN /\ req' = [req EXCEPT ![r] =
                           [pc |-> "send", kind |-> "ws", project |-> req[r].project,
                            main |-> main_tex, type |-> "compile_success",
                            time |-> duration, body |-> out.res.val,
                            blobs |-> req[r].uploaded_hashes, passes |-> 1]]
              /\ dirs' = write_file(dirs, r, pdf_name(main_tex), out.res.val)
         ELSE /\ req' = [req EXCEPT ![r] =
                           [pc |-> "send", kind |-> "ws", project |-> req[r].project,
                            main |-> main_tex, type |-> "compile_error",
                            error |-> out.res.err, logs |-> out.logs,
                            details |-> parse_log_errors(out.logs),
                            passes |-> 1, source |-> files_of(dirs, r)]]
              /\ UNCHANGED dirs
    /\ UNCHANGED <<now, ticks, enabled, entries, readers, seen_preambles,
                   blob_cache, cam_hist, last_put, nreq, last_miss>>
    /\ UNCHANGED avars

\* lines 276-294: socket.send completes and the turn of the message loop
\* ends, which drops temp_dir
SendFrame(r) ==
    /\ req[r].pc = "send" /\ req[r].kind = "ws"
    /\ req' = [req EXCEPT ![r] = [req[r] EXCEPT !.pc = "answered"]]
    /\ dirs' = release(dirs, r)
    /\ UNCHANGED <<now, ticks, enabled, entries, readers, seen_preambles,
                   blob_cache, cam_hist, last_put, nreq, last_miss, stray>>
    /\ UNCHANGED wvars

\* the frame of a message is sent, on any connection
WsSent(r) == SendFrame(r) /\ UNCHANGED sock

NextWs ==
    \/ \E r \in Requests : WsStart(r)
    \/ \E r \in Requests : WsStartFail(r)
    \/ \E r \in Requests : WsNextFile(r)
    \/ \E r \in Requests : WsEngine(r)
    \/ \E r \in Requests : WsSent(r)

\* project messages, on concurrent connections
SpecWs == Init /\ [][NextWs]_vars

(***************************************************************************)
(* One connection: the message loop of handle_socket, lines 191-296.       *)
(***************************************************************************)
\* how many messages a connection receives at most
MaxMessages == 3

\* Message::Text holding a project envelope
TextProject(project) == [kind |-> "text", json |-> "project", project |-> project]
\* Message::Text holding anything else
TextOther == [kind |-> "text", json |-> "other"]
\* Message::Binary, Ping, Pong or Close
NonText == [kind |-> "binary"]
\* socket.recv() yields Some(Err(..))
RecvErr == [kind |-> "error"]

\* the projects sent on the connection: one that compiles, one that does not
SessionProjects ==
    { [main |-> None, files |-> (MainTex :> RawText(GoodDoc))],
      [main |-> None, files |-> (MainTex :> RawText(NoEndDoc))] }

\* what socket.recv() can yield, the end of the stream aside
WsMessages == {TextProject(p) : p \in SessionProjects} \cup {TextOther, NonText, RecvErr}

\* lines 192-195: Ok(Message::Text(t)) => t, _ => continue
text_of(msg_res) == IF msg_res.kind = "text" THEN Some(msg_res) ELSE None

\* line 197: serde_json::from_str::<WsProject>(&msg)
from_str(t) == IF t.json = "project" THEN Ok(t.project) ELSE Err("not a project")

\* the message is one the loop acts on
is_project(msg_res) == text_of(msg_res).some /\ from_str(text_of(msg_res).val).ok

\* a send that hands nothing to the socket
send_dropped(outbox, re, type) == outbox

\* socket.send(Message::Text(..)): one more frame handed to the socket, re
\* being the number of the message it answers
send(outbox, re, type) == Append(outbox, [re |-> re, type |-> type])

\* the connection can take one more message
Receiving == sock.pc = "recv" /\ Len(sock.received) < MaxMessages

\* lines 191-197: a message that is not text, or does not parse, is passed over
SessSkip ==
    /\ Receiving
    /\ \E msg \in WsMessages :
         /\ ~is_project(msg)
         /\ sock' = [sock EXCEPT !.received = Append(@, msg)]
    /\ UNCHANGED <<now, ticks, enabled, entries, readers, seen_preambles,
                   blob_cache, cam_hist, last_put, req, nreq, dirs, last_miss,
                   stray>>
    /\ UNCHANGED wvars

\* line 191: recv() yields None and the loop ends
SessClose ==
    /\ sock.pc = "recv"
    /\ sock' = [sock EXCEPT !.pc = "closed"]
    /\ UNCHANGED <<now, ticks, enabled, entries, readers, seen_preambles,
                   blob_cache, cam_hist, last_put, req, nreq, dirs, last_miss,
                   stray>>
    /\ UNCHANGED wvars

\* lines 191-217: a project message is received and its workspace created
SessProject ==
    /\ Receiving
    /\ \E msg \in WsMessages, r \in Requests :
         /\ is_project(msg)
         /\ StartProject(r, from_str(text_of(msg).val).val)
         /\ sock' = [sock EXCEPT !.received = Append(@, msg), !.pc = "busy",
                                 !.cur = r]

\* lines 208-214: the workspace cannot be created, a compile_error frame is
\* sent and the loop continues
SessProjectFail ==
    /\ Receiving
    /\ \E msg \in WsMessages, r \in Requests :
         /\ is_project(msg)
         /\ StartProjectFail(r, from_str(text_of(msg).val).val)
         /\ sock' = [sock EXCEPT !.received = Append(@, msg),
                                 !.outbox = send(@, Len(sock.received) + 1,
                                                 "compile_error")]

\* lines 218-236: one file of the project is written
SessFile == sock.pc = "busy" /\ WsNextFile(sock.cur)

\* lines 238-273: the engine runs
SessEngine == sock.pc = "busy" /\ WsEngine(sock.cur)

\* lines 275-294: the frame is sent and the loop turns
SessSent ==
    /\ sock.pc = "busy"
    /\ SendFrame(sock.cur)
    /\ sock' = [sock EXCEPT !.outbox = send(@, Len(sock.received), req[sock.cur].type),
                            !.pc = "recv"]

NextSession ==
    \/ SessSkip
    \/ SessClose
    \/ SessProject
    \/ SessProjectFail
    \/ SessFile
    \/ SessEngine
    \/ SessSent

\* one connection, whose task runs whenever it can
SpecSession == Init /\ [][NextSession]_vars /\ WF_vars(NextSession)

(***************************************************************************)
(* POST /compile of main.rs, with the on-disk cache of main.rs.            *)
(***************************************************************************)
\* filename.as_bytes()
name_bytes(name) == <<name.stem \o "." \o name.ext>>

RECURSIVE files_data_of(_)
\* main.rs:689-701: the parts kept by the ingestion loop; a framing error
\* ends the loop, an unreadable or empty part is skipped
files_data_of(upload) ==
    IF upload = << >> THEN << >>
    ELSE LET part == Head(upload) IN
         IF part.kind = "badframe" THEN << >>
         ELSE IF part.kind = "badread" \/ part.data = << >> THEN files_data_of(Tail(upload))
         ELSE <<part>> \o files_data_of(Tail(upload))

RECURSIVE main_input_data(_)
\* main.rs:698-699: filename and data of every kept part, in order
main_input_data(files_data) ==
    IF files_data = << >> THEN << >>
    ELSE name_bytes(Head(files_data).name) \o Head(files_data).data
         \o main_input_data(Tail(files_data))

\* format!("{:016x}.pdf", hash)
cache_filename(hash) == [cached |-> hash]

\* main.rs get_pdf, lines 102-114: the lookup hits
main_hit(hash) ==
    /\ enabled
    /\ hash \in DOMAIN main_entries
    /\ now - main_entries[hash].created_at < CACHE_TTL_SECS
    /\ main_entries[hash].filename \in DOMAIN cache_dir

RECURSIVE write_all(_, _, _)
\* main.rs:732-769: every kept part is written into the workspace
write_all(ds, ws, files_data) ==
    IF files_data = << >> THEN ds
    ELSE write_all(write_file(ds, ws, Head(files_data).name, Head(files_data).data),
                   ws, Tail(files_data))

\* main.rs:776-822: the files the detection of the main file can settle on;
\* read_dir lists the directory in no particular order
main_candidates(files) ==
    LET tex_files == {n \in DOMAIN files : n.ext = "tex"}
        with_begin == {n \in tex_files : from_utf8_ok(files[n]) /\ Contains(files[n], BeginDoc)}
    IN IF MainTex \in tex_files THEN {MainTex}
       ELSE IF with_begin # {} THEN with_begin
       ELSE tex_files

MainCommon(q) == [kind |-> q.kind, upload |-> q.upload, main |-> q.main,
                  files_received |-> q.files_received,
                  input_hash |-> q.input_hash, seen |-> q.seen]

\* main.rs:685-721: ingestion, the fingerprint and the cache lookup
MainStart(r) ==
    /\ Begins(r)
    /\ \E up \in Uploads :
         LET files_data == files_data_of(up)
             input_hash == hash_input(main_input_data(files_data))
         IN IF files_data = << >>
            THEN req' = [req EXCEPT ![r] =
                           Answered(r, [kind |-> "main", upload |-> up, status |-> 400,
                                        error |-> "No files provided"])]
            ELSE IF main_hit(input_hash)
            THEN req' = [req EXCEPT ![r] =
                           Answered(r, [kind |-> "main", upload |-> up, status |-> 200,
                                        cache |-> "HIT", time |-> 0,
                                        original_time |-> main_entries[input_hash].compile_time_ms,
                                        body |-> cache_dir[main_entries[input_hash].filename],
                                        files_received |-> Len(files_data),
                                        input_hash |-> input_hash,
                                        seen |-> DOMAIN main_entries, passes |-> 0])]
            ELSE req' = [req EXCEPT ![r] =
                           [kind |-> "main", pc |-> "build", upload |-> up,
                            files_data |-> files_data, input_hash |-> input_hash,
                            seen |-> DOMAIN main_entries]]
    /\ UNCHANGED <<now, ticks, enabled, entries, readers, seen_preambles,
                   blob_cache, cam_hist, last_put, dirs, last_miss, stray>>
    /\ UNCHANGED <<evars, call, ncalls, mvars>>

\* main.rs:724-827: the workspace is created and filled and the main file is
\* detected
MainBuild(r) ==
    /\ req[r].pc = "build" /\ req[r].kind = "main"
    /\ LET files == write_all(create_dir(dirs, r), r, req[r].files_data)[r]
       IN IF main_candidates(files) = {}
          THEN /\ req' = [req EXCEPT ![r] =
                            Answered(r, [kind |-> "main", upload |-> req[r].upload,
                                         status |-> 400, error |-> "No .tex file found"])]
               /\ UNCHANGED dirs
          ELSE /\ \E main \in main_candidates(files) :
                    req' = [req EXCEPT ![r] =
                              [kind |-> "main", pc |-> "hmr", upload |-> req[r].upload,
                               main |-> main, files_received |-> Len(req[r].files_data),
                               input_hash |-> req[r].input_hash, seen |-> req[r].seen]]
               /\ dirs' = write_all(create_dir(dirs, r), r, req[r].files_data)
    /\ UNCHANGED <<now, ticks, enabled, entries, readers, seen_preambles,
                   blob_cache, cam_hist, last_put, nreq, last_miss, stray>>
    /\ UNCHANGED <<evars, call, ncalls, mvars>>

\* main.rs:724-727: TempDir::new fails
MainBuildFail(r) ==
    /\ req[r].pc = "build" /\ req[r].kind = "main"
    /\ req' = [req EXCEPT ![r] =
                 Answered(r, [kind |-> "main", upload |-> req[r].upload, status |-> 500,
                              error |-> "Failed to create temp dir"])]
    /\ UNCHANGED <<now, ticks, enabled, entries, readers, seen_preambles,
                   blob_cache, cam_hist, last_put, nreq, dirs, last_miss, stray>>
    /\ UNCHANGED <<evars, call, ncalls, mvars>>

\* main.rs:829-843: the HMR status of the main file
MainHmr(r) ==
    /\ req[r].pc = "hmr" /\ req[r].kind = "main"
    /\ LET content == files_of(dirs, r)[req[r].main]
           preamble == extract_preamble(content)
       IN IF from_utf8_ok(content) /\ preamble.some
          THEN LET preamble_hash == hash_preamble(preamble.val)
                   is_warm == check_and_mark_ret(seen_preambles, preamble_hash)
               IN /\ seen_preambles' = check_and_mark_set(seen_preambles, preamble_hash)
                  /\ cam_hist' = cam_record(preamble_hash, is_warm)
                  /\ req' = [req EXCEPT ![r] =
                               [pc |-> "engine",
                                hmr_status |-> IF is_warm THEN "HIT" ELSE "MISS"]
                               @@ MainCommon(req[r])]
          ELSE /\ req' = [req EXCEPT ![r] =
                            [pc |-> "engine", hmr_status |-> "NONE"] @@ MainCommon(req[r])]
               /\ UNCHANGED <<seen_preambles, cam_hist>>
    /\ UNCHANGED <<now, ticks, enabled, entries, readers, blob_cache, last_put,
                   nreq, dirs, last_miss, stray>>
    /\ UNCHANGED <<evars, call, ncalls, mvars>>

\* main.rs:846-900 and 121-136: the engine runs; on success put_pdf writes
\* the cache file and reads the clock before it awaits the write lock
MainEngine(r) ==
    /\ req[r].pc = "engine" /\ req[r].kind = "main"
    /\ stray' = Stray(r)
    /\ \E out \in CompileOutcomes(files_of(dirs, r), req[r].main),
          compile_time_ms \in CompileTimes :
         IF out.res.ok
         THEN /\ req' = [req EXCEPT ![r] =
                           [pc |-> "put", hmr_status |-> req[r].hmr_status,
                            pdf_data |-> out.res.val,
                            compile_time_ms |-> compile_time_ms, now |-> now]
                           @@ MainCommon(req[r])]
              /\ dirs' = write_file(dirs, r, pdf_name(req[r].main), out.res.val)
              /\ cache_dir' = IF enabled
                              THEN Insert(cache_dir, cache_filename(req[r].input_hash),
                                          out.res.val)
                              ELSE cache_dir
         ELSE /\ req' = [req EXCEPT ![r] =
                           Answered(r, [status |-> 500, error |-> out.res.err,
                                        logs |-> out.logs, passes |-> 1,
                                        source |-> files_of(dirs, r)]
                                       @@ MainCommon(req[r]))]
              /\ dirs' = release(dirs, r)
              /\ UNCHANGED cache_dir
    /\ UNCHANGED <<now, ticks, enabled, entries, readers, seen_preambles,
                   blob_cache, cam_hist, last_put, nreq, last_miss>>
    /\ UNCHANGED <<evars, call, ncalls, main_entries>>

\* main.rs:138-145 and 871-883, 935-936: the entry is inserted under the
\* write lock, the 200 MISS response is built and temp_dir is dropped
MainPut(r) ==
    /\ req[r].pc = "put" /\ req[r].kind = "main"
    /\ main_entries' =
         IF enabled
         THEN Insert(main_entries, req[r].input_hash,
                     [hash |-> req[r].input_hash,
                      filename |-> cache_filename(req[r].input_hash),
                      created_at |-> req[r].now,
                      compile_time_ms |-> req[r].compile_time_ms])
         ELSE main_entries
    /\ req' = [req EXCEPT ![r] =
                 Answered(r, [status |-> 200, cache |-> "MISS",
                              hmr |-> req[r].hmr_status,
                              time |-> req[r].compile_time_ms,
                              body |-> req[r].pdf_data, passes |-> 1]
                             @@ MainCommon(req[r]))]
    /\ last_miss' = miss_record(req[r].input_hash, req[r].pdf_data,
                                req[r].compile_time_ms)
    /\ dirs' = release(dirs, r)
    /\ UNCHANGED <<now, ticks, enabled, entries, readers, seen_preambles,
                   blob_cache, cam_hist, last_put, nreq, stray>>
    /\ UNCHANGED <<evars, call, ncalls, cache_dir>>

\* main.rs:149-175, run hourly by cache_cleanup_task: the entries older than
\* the TTL are removed with their files
MainCleanup ==
    /\ enabled
    /\ LET expired == {h \in DOMAIN main_entries :
                         now - main_entries[h].created_at >= CACHE_TTL_SECS}
       IN /\ expired # {}
          /\ main_entries' = [h \in (DOMAIN main_entries) \ expired |-> main_entries[h]]
          /\ cache_dir' = [f \in (DOMAIN cache_dir) \ {main_entries[h].filename : h \in expired}
                             |-> cache_dir[f]]
    /\ UNCHANGED <<now, ticks, enabled, entries, readers, seen_preambles,
                   blob_cache, cam_hist, last_put, req, nreq, dirs, last_miss, stray>>
    /\ UNCHANGED <<evars, call, ncalls>>

NextMain ==
    \/ Tick
    \/ MainCleanup
    \/ \E r \in Requests : MainStart(r)
    \/ \E r \in Requests : MainBuild(r)
    \/ \E r \in Requests : MainBuildFail(r)
    \/ \E r \in Requests : MainHmr(r)
    \/ \E r \in Requests : MainEngine(r)
    \/ \E r \in Requests : MainPut(r)

\* POST /compile of main.rs, served concurrently
SpecMain == Init /\ [][NextMain]_vars

(***************************************************************************)
(* The server of handlers.rs and mcp.rs: the three transports together.    *)
(***************************************************************************)
Next ==
    \/ Tick
    \/ \E r \in Requests : HttpStart(r)
    \/ \E r \in Requests : HttpStartFail(r)
    \/ \E r \in Requests : HttpNextField(r)
    \/ \E r \in Requests : HttpWriteFail(r)
    \/ \E r \in Requests : HttpLookup(r)
    \/ \E r \in Requests : HttpHit(r)
    \/ \E r \in Requests : HttpHmr(r)
    \/ \E r \in Requests : HttpEngine(r)
    \/ \E r \in Requests : HttpPut(r)
    \/ \E r \in Requests : McpStart(r)
    \/ \E r \in Requests : McpStartFail(r)
    \/ \E r \in Requests : McpHit(r)
    \/ \E r \in Requests : McpEngine(r)
    \/ \E r \in Requests : McpPut(r)
    \/ \E r \in Requests : WsStart(r)
    \/ \E r \in Requests : WsStartFail(r)
    \/ \E r \in Requests : WsNextFile(r)
    \/ \E r \in Requests : WsEngine(r)
    \/ \E r \in Requests : WsSent(r)

Spec == Init /\ [][Next]_vars

(***************************************************************************)
(* Claims about the request handlers.                                      *)
(***************************************************************************)
IsAnswered(r) == req[r].pc = "answered"
Has(r, field) == field \in DOMAIN req[r]

\* r is the only request answered from a fresh compile of its fingerprint
OnlyMiss(r) ==
    \A o \in Requests \ {r} :
        ~(/\ Has(o, "cache") /\ req[o].cache = "MISS"
          /\ req[o].kind = req[r].kind /\ req[o].input_hash = req[r].input_hash)

\* C2: with the cache enabled, when POST /compile of an input set succeeded
\* and its entry is still in the cache when the same input set is posted
\* again, the second response is 200 with X-Cache: HIT, the same PDF bytes,
\* and an X-Compile-Time-Ms equal to the one the first response reported.
C2_RepeatServedFromCache ==
    \A r1, r2 \in Requests :
        (/\ r1 # r2 /\ IsAnswered(r1) /\ IsAnswered(r2)
         /\ req[r1].kind \in {"http", "main"} /\ req[r2].kind = req[r1].kind
         /\ req[r2].upload = req[r1].upload
         /\ Has(r1, "cache") /\ req[r1].cache = "MISS" /\ req[r1].status = 200
         /\ Has(r2, "seen") /\ req[r1].input_hash \in req[r2].seen
         /\ OnlyMiss(r1))
        => /\ req[r2].status = 200
           /\ Has(r2, "cache") /\ req[r2].cache = "HIT"
           /\ req[r2].body = req[r1].body
           /\ req[r2].time = req[r1].time

\* C3: on every transport, a request whose engine pass failed on a source
\* the Self-Healer can patch is not answered with the failure before the
\* engine has run a second time.
C3_HealedBeforeFailure ==
    \A r \in Requests :
        (/\ IsAnswered(r) /\ Has(r, "logs")
         /\ req[r].main \in DOMAIN req[r].source
         /\ from_utf8_ok(req[r].source[req[r].main])
         /\ attempt_heal(req[r].source[req[r].main], req[r].logs).some)
        => req[r].passes >= 2

C8_SecondCallIsCached ==
    \A r1, r2 \in Requests :
        (/\ r1 # r2 /\ IsAnswered(r1) /\ IsAnswered(r2)
         /\ req[r1].kind = "mcp" /\ req[r2].kind = "mcp"
         /\ req[r2].args = req[r1].args
         /\ Has(r1, "cache") /\ req[r1].cache = "MISS"
         /\ Has(r2, "seen") /\ req[r1].input_hash \in req[r2].seen
         /\ OnlyMiss(r1))
        => /\ Has(r2, "cache") /\ req[r2].cache = "HIT"
           /\ req[r2].body = req[r1].body
           /\ req[r2].time = req[r1].time

RECURSIVE concat_data(_)
\* the contents of the parts of an upload, one after the other in upload order
concat_data(upload) ==
    IF upload = << >> THEN << >>
    ELSE Head(upload).data \o concat_data(Tail(upload))

\* the parts of an upload, without their order
parts_of(upload) == {upload[i] : i \in 1..Len(upload)}

\* C9 (as amended): the fingerprint POST /compile takes of an upload is the
\* hash of the parts' contents concatenated in upload order, so two uploads
\* have equal fingerprints exactly when these concatenations are equal: the
\* same files in the same order always agree.
C9_FingerprintOfOrderedContents ==
    /\ \A r \in Requests :
         (req[r].kind = "http" /\ Has(r, "input_hash"))
         => req[r].input_hash = hash_input(concat_data(req[r].upload))
    /\ \A r1, r2 \in Requests :
         (/\ req[r1].kind = "http" /\ Has(r1, "input_hash")
          /\ req[r2].kind = "http" /\ Has(r2, "input_hash"))
         => (req[r1].input_hash = req[r2].input_hash
             <=> concat_data(req[r1].upload) = concat_data(req[r2].upload))

\* C9: two requests uploaded the same two files in the same order and got
\* the same fingerprint
C9_Witness ==
    \E r1, r2 \in Requests :
        /\ r1 # r2
        /\ req[r1].kind = "http" /\ Has(r1, "input_hash")
        /\ req[r2].kind = "http" /\ Has(r2, "input_hash")
        /\ Len(req[r1].upload) = 2
        /\ req[r1].upload = req[r2].upload
        /\ req[r1].input_hash = req[r2].input_hash

\* C9 (as stated): uploads of the same files with the same contents have
\* equal fingerprints whatever the order they were uploaded in.
C9_OrderIndependent ==
    \A r1, r2 \in Requests :
        (/\ req[r1].kind = "http" /\ Has(r1, "input_hash")
         /\ req[r2].kind = "http" /\ Has(r2, "input_hash")
         /\ parts_of(req[r1].upload) = parts_of(req[r2].upload))
        => req[r1].input_hash = req[r2].input_hash

RECURSIVE first_tex(_)
\* the name of the first part that ends in .tex, main.tex when there is none
first_tex(upload) ==
    IF upload = << >> THEN MainTex
    ELSE IF Head(upload).kind = "file" /\ ends_with(Head(upload).name, "tex")
         THEN Head(upload).name
         ELSE first_tex(Tail(upload))

\* C10: the main file POST /compile hands to the engine is the first
\* uploaded part whose name ends in .tex, whatever .tex parts follow it, and
\* main.tex when no part ends in .tex.
C10_FirstTexIsMain ==
    \A r \in Requests :
        (req[r].kind \in {"http", "main"} /\ Has(r, "main"))
        => req[r].main = first_tex(req[r].upload)

(***************************************************************************)
(* Claims about the services.                                              *)
(***************************************************************************)
\* C1: with the result cache enabled, in every reachable state the sum of
\* the sizes of all retained PDFs is at most max_cache_mb x 1 MiB.
C1_TotalWithinLimit == enabled => current_size(entries) <= CacheLimit

\* C5: for every preamble hash, of all check_and_mark calls made for it so
\* far exactly one returned false (none when no call was made), and a hash
\* once marked is in the set ever after.
C5_CheckAndMarkOnce ==
    \A h \in PreambleHashes :
        /\ cam_hist[h].falses <= 1
        /\ cam_hist[h].calls = 0 => cam_hist[h].falses = 0 /\ h \notin seen_preambles
        /\ cam_hist[h].calls > 0 => cam_hist[h].falses = 1 /\ h \in seen_preambles

\* C5's case: some hash was checked more than once and another hash was
\* marked as well
C5_Witness ==
    \E h, g \in PreambleHashes :
        /\ h # g
        /\ cam_hist[h].calls >= 2
        /\ cam_hist[g].calls >= 1

\* C6: the blob store holds, for every key ever put, the bytes of the most
\* recent completed put (no key is ever removed), and every get returned
\* exactly those bytes, or nothing for a key never put.
C6_BlobPutGet ==
    /\ blob_cache = last_put
    /\ \A c \in Clients :
         call[c].op = "blob_get" =>
            call[c].ret = (IF call[c].stored THEN Some(call[c].expect) ELSE None)

\* C6's case: a get returned the bytes of a key that was put
C6_Witness ==
    \E c \in Clients : call[c].op = "blob_get" /\ call[c].ret.some

\* C7: a lookup that hits returns the bytes and the compile time stored
\* under the fingerprint and changes nothing in the cache but that entry's
\* last_accessed, which becomes the clock reading the lookup took.
C7_LookupHitFrame ==
    [][\A c \in Clients :
         (call[c].op = "get_pdf" /\ call[c].pc = "store" /\ call'[c].pc = "done") =>
            LET h == call[c].hash
            IN /\ call'[c].ret = Some([pdf_data |-> entries[h].pdf_data,
                                       compile_time_ms |-> entries[h].compile_time_ms])
               /\ DOMAIN entries' = DOMAIN entries
               /\ \A k \in DOMAIN entries : k # h => entries'[k] = entries[k]
               /\ entries'[h] = [entries[h] EXCEPT !.last_accessed = call[c].now]
               /\ call[c].now <= now
               /\ UNCHANGED <<enabled, seen_preambles, blob_cache>>]_vars

\* C7's case: a lookup hit an entry that was created before the lookup's
\* clock reading while another entry was retained
C7_Witness ==
    \E c \in Clients :
        /\ call[c].op = "get_pdf" /\ call[c].pc = "done" /\ call[c].ret.some
        /\ call[c].hash \in DOMAIN entries
        /\ entries[call[c].hash].last_accessed > entries[call[c].hash].created_at
        /\ Cardinality(DOMAIN entries) >= 2

\* C16: when PDF_CACHE_ENABLED is not set at startup the result cache is
\* enabled (so that a successful compile is stored and served again).
C16_EnabledByDefault == cache_env = NotSet => enabled

\* the request was answered with a failure of the workspace itself
WorkspaceFailure(r) ==
    Has(r, "error") /\ req[r].error \in {"Failed to create temp dir", "Failed to write file"}

\* C11: a POST /compile without any file part is answered 400 and the
\* engine is not run for it.
C11_EmptyUploadRejected ==
    \A r \in Requests :
        (/\ IsAnswered(r) /\ req[r].kind \in {"http", "main"}
         /\ req[r].upload = << >> /\ ~WorkspaceFailure(r))
        => req[r].status = 400 /\ ~Has(r, "passes")

\* every part of the upload arrived whole and none is named *.tex
NoTexPart(upload) ==
    /\ upload # << >>
    /\ \A i \in 1..Len(upload) :
         upload[i].kind = "file" /\ ~ends_with(upload[i].name, "tex")

\* C12: a POST /compile without a .tex part reaches the engine and is
\* answered 500 with the engine's error and logs, not rejected before.
C12_NoTexReachesEngine ==
    \A r \in Requests :
        (/\ IsAnswered(r) /\ req[r].kind \in {"http", "main"}
         /\ NoTexPart(req[r].upload) /\ ~WorkspaceFailure(r))
        => req[r].status = 500 /\ Has(r, "logs") /\ req[r].passes = 1

\* the upload has a part with bad framing or that cannot be read
HasBadPart(upload) ==
    \E i \in 1..Len(upload) : upload[i].kind \in {"badframe", "badread"}

\* a request whose ingestion met a bad part was answered 400 without any
\* lookup or engine run
IngestionAnswer ==
    \A r \in Requests :
        (/\ IsAnswered(r) /\ req[r].kind = "http"
         /\ HasBadPart(req[r].upload) /\ ~WorkspaceFailure(r))
        => /\ req[r].status = 400
           /\ req[r].error \in {"Multipart error", "Failed to read file"}
           /\ ~Has(r, "passes") /\ ~Has(r, "input_hash")

\* the steps a request takes up to the end of its ingestion, failure
\* included, leave the three stores as they are
IngestionSteps ==
    \A r \in Requests :
        (/\ req'[r] # req[r] /\ req'[r].kind = "http"
         /\ \/ req'[r].pc = "ingest"
            \/ req'[r].pc = "answered" /\ req[r].pc \in {"new", "ingest"})
        => UNCHANGED <<entries, seen_preambles, blob_cache>>

\* C13: when ingestion of a POST /compile fails at a part, the answer is 400,
\* the engine is never run for the request, and no step of the request has
\* changed the result cache, the format cache or the blob store, also when
\* earlier parts were already written to the workspace.
C13_IngestionFailure == []IngestionAnswer /\ [][IngestionSteps]_vars

\* C13: a request failed at its second part, after its first part was
\* written, while the result cache held an entry of another request
C13_Witness ==
    \E r \in Requests :
        /\ IsAnswered(r) /\ req[r].kind = "http"
        /\ Len(req[r].upload) = 2 /\ HasBadPart(req[r].upload)
        /\ req[r].status = 400
        /\ entries # << >>

\* the HMR status compile_handler gives a main file, with the format cache
\* before and after
HmrOutcome(data, status, seen, seen_after) ==
    IF ~from_utf8_ok(data) THEN status = "ERROR" /\ seen_after = seen
    ELSE IF ~Contains(data, BeginDoc) THEN status = "NONE" /\ seen_after = seen
    ELSE LET h == hash_preamble(SubSeq(data, 1, find(data, BeginDoc) - 1)) IN
         \/ h \in seen /\ status = "HIT" /\ seen_after = seen
         \/ h \notin seen /\ status = "MISS" /\ seen_after = seen \cup {h}

\* the step that settles the HMR status of a request, and the step after it
HmrSteps ==
    \A r \in Requests :
        /\ (req[r].kind = "http" /\ req[r].pc = "hmr" /\ req'[r] # req[r])
           => /\ req'[r].pc = "engine"
              /\ HmrOutcome(req[r].main_tex_data, req'[r].hmr_status,
                            seen_preambles, seen_preambles')
        /\ (req[r].kind = "http" /\ req[r].pc = "engine" /\ req'[r] # req[r])
           => \/ req'[r].pc = "put"
              \/ req'[r].pc = "answered" /\ req'[r].passes = 1

\* C14: a POST /compile that missed the result cache gets HMR status ERROR
\* for a main file that is not valid UTF-8, NONE for text without
\* \begin{document}, and else HIT or MISS as check_and_mark says; whatever
\* the status the next step of the request is the engine pass, and NONE and
\* ERROR leave the format cache unchanged.
C14_HmrStatus == [][HmrSteps]_vars

\* C14: one request is about to run the engine with status ERROR while
\* another was answered after a MISS of the format cache
C14_Witness ==
    \E r1, r2 \in Requests :
        /\ req[r1].kind = "http" /\ req[r1].pc = "engine" /\ req[r1].hmr_status = "ERROR"
        /\ IsAnswered(r2) /\ Has(r2, "hmr") /\ req[r2].hmr = "MISS"
        /\ seen_preambles # {}

\* a token that is a stub definition of command c
IsStubOf(tok, c) == tok = Stub(c)

\* the line the first 'Undefined control sequence' of the log reports exists
\* and every command on it is protected
OnlyProtectedReported(content, logs) ==
    /\ undefined_at(logs).some
    /\ LET n == saturating_sub(undefined_at(logs).val, 1) + 1 IN
       /\ n <= Len(lines(content))
       /\ \A i \in 1..Len(lines(content)[n]) :
            is_command(lines(content)[n][i]) => lines(content)[n][i] \in PROTECTED_COMMANDS

\* C15: the Self-Healer never emits a stub definition of a protected
\* command; when the reported line holds only protected commands its result
\* holds no stub at all, and it is None when neither the missing
\* \end{document} rule nor the runaway rule applies.
C15_ProtectedNeverStubbed ==
    heal.pc = "done" =>
        /\ heal.result.some =>
             \A i \in 1..Len(heal.result.val), c \in PROTECTED_COMMANDS :
                 ~IsStubOf(heal.result.val[i], c)
        /\ OnlyProtectedReported(heal.content, heal.logs) =>
             /\ heal.result.some =>
                  \A i \in 1..Len(heal.result.val), c \in UndefinedCommands :
                      ~IsStubOf(heal.result.val[i], c)
             /\ (/\ ~fix_missing_end(heal.content).applied
                 /\ ~fix_runaway(heal.content, heal.logs).applied)
                => heal.result = None

\* C15: the healer was called on a complete document whose reported line
\* holds \textbf only, and returned None
C15_Witness ==
    /\ heal.pc = "done"
    /\ OnlyProtectedReported(heal.content, heal.logs)
    /\ Contains(heal.content, "\\textbf")
    /\ Contains(heal.content, EndDoc) /\ Contains(heal.content, BeginDoc)
    /\ heal.result = None

\* C17: with the result cache configured off, every get_pdf returns None and
\* every put_pdf leaves the cache as it is: the cache never holds an entry.
C17_DisabledHoldsNothing ==
    ~enabled =>
        /\ entries = << >>
        /\ \A c \in Clients :
             (call[c].op = "get_pdf" /\ call[c].pc = "done") => call[c].ret = None

\* C17: with the cache off, one client has completed a put_pdf and another
\* a get_pdf
C17_Witness ==
    /\ ~enabled
    /\ \E c1, c2 \in Clients :
         /\ call[c1].op = "put_pdf" /\ call[c1].pc = "done"
         /\ call[c2].op = "get_pdf" /\ call[c2].pc = "done"

\* the file a step of the loop over project.files has dealt with
file_done(r) == CHOOSE name \in req[r].remaining : name \notin req'[r].remaining

\* a turn of the loop that deals with a hash reference writes the bytes the
\* blob store holds under the hash, or nothing when it holds none, and goes on
HashRefSteps ==
    \A r \in Requests :
        (/\ req[r].kind = "ws" /\ req[r].pc = "files"
         /\ "remaining" \in DOMAIN req'[r] /\ req'[r].remaining # req[r].remaining
         /\ req[r].project.files[file_done(r)].variant = "HashRef")
        => LET value == req[r].project.files[file_done(r)].value IN
           /\ req'[r].pc = "files"
           /\ blob_cache' = blob_cache
           /\ IF value \in DOMAIN blob_cache
              THEN /\ r \in DOMAIN dirs' /\ file_done(r) \in DOMAIN dirs'[r]
                   /\ dirs'[r][file_done(r)] = blob_cache[value]
              ELSE dirs' = dirs

\* every project message whose workspace was created got its engine pass
WsReachesEngine ==
    \A r \in Requests :
        (IsAnswered(r) /\ req[r].kind = "ws" /\ ~WorkspaceFailure(r))
        => req[r].passes = 1

RawFiles(project, exts) ==
    {name \in DOMAIN project.files :
        project.files[name].variant = "Raw" /\ name.ext \in exts}

\* C19: the response to a project message reports the hash of every raw
\* file with a binary extension whose payload decoded as base64.
C19_HashReported ==
    \A r \in Requests :
        (IsAnswered(r) /\ req[r].kind = "ws" /\ ~WorkspaceFailure(r))
        => \A name \in RawFiles(req[r].project, {"png"}) :
             decode(req[r].project.files[name]).ok
             => /\ Has(r, "blobs") /\ name \in DOMAIN req[r].blobs
                /\ req[r].blobs[name] =
                     hash_hex(xxh64(decode(req[r].project.files[name]).val, 0))

\* C20: a raw file named *.tex, *.sty, *.cls or *.bib is in the workspace
\* with the bytes of the string as sent, and no blob was stored for it.
C20_TextWrittenAsIs ==
    \A r \in Requests :
        (req[r].kind = "ws" /\ req[r].pc = "files")
        => \A name \in RawFiles(req[r].project, {"tex", "sty", "cls", "bib"}) \ req[r].remaining :
             /\ name \notin DOMAIN req[r].uploaded_hashes
             /\ (r \in DOMAIN dirs /\ name \in DOMAIN dirs[r])
                => dirs[r][name] = as_bytes(req[r].project.files[name])

\* C21: the log parser runs only when a compile has failed, and every
\* failure response on the WebSocket path and on the tool-call path carries
\* the diagnostics the parser produced from that compile's log.
C21_FailureCarriesDiagnostics ==
    \A r \in Requests :
        (IsAnswered(r) /\ req[r].kind \in {"ws", "mcp"})
        => /\ Has(r, "body") => ~Has(r, "details")
           /\ Has(r, "logs") => /\ Has(r, "details")
                                /\ req[r].details = parse_log_errors(req[r].logs)

RECURSIVE EvictUntilFits(_, _)
\* the maps that evicting in ascending order of last_accessed, one entry
\* after another, can end in: it stops when size more bytes fit or the map
\* is empty
EvictUntilFits(es, size) ==
    IF current_size(es) + size <= CacheLimit \/ DOMAIN es = {} THEN {es}
    ELSE UNION {EvictUntilFits(Remove(es, v), size) : v \in lru_candidates(es)}

\* C22: an Insert whose bytes do not fit evicts entries in ascending order of
\* last_accessed, one after another, until the new entry fits or the cache
\* is empty, and only then writes the new entry, with created_at =
\* last_accessed = the clock reading of the Insert.
C22_EvictsUntilFits ==
    [][\A c \in Clients :
         (call[c].op = "put_pdf" /\ call[c].pc = "lock" /\ call'[c].pc = "done") =>
            \E es \in EvictUntilFits(entries, ByteLen(call[c].pdf_data)) :
                entries' = Insert(es, call[c].hash,
                                  [pdf_data |-> call[c].pdf_data,
                                   created_at |-> call[c].now,
                                   last_accessed |-> call[c].now,
                                   compile_time_ms |-> call[c].compile_time_ms,
                                   size_bytes |-> ByteLen(call[c].pdf_data)])]_vars

\* the entry under k alone exceeds the limit
Oversized(es, k) == es[k].size_bytes > CacheLimit

\* C23: an Insert whose bytes alone exceed the limit leaves the cache holding
\* exactly the inserted entry, and a later Insert that needs space and finds
\* that entry the least recently accessed evicts it like any other.
C23_OversizedAloneRetained ==
    [][\A c \in Clients :
         (call[c].op = "put_pdf" /\ call[c].pc = "lock" /\ call'[c].pc = "done") =>
            /\ ByteLen(call[c].pdf_data) > CacheLimit
               => /\ DOMAIN entries' = {call[c].hash}
                  /\ entries'[call[c].hash].pdf_data = call[c].pdf_data
            /\ \A k \in DOMAIN entries :
                 (/\ Oversized(entries, k) /\ k # call[c].hash
                  /\ lru_candidates(entries) = {k}
                  /\ current_size(entries) + ByteLen(call[c].pdf_data) > CacheLimit)
                 => k \notin DOMAIN entries']_vars

\* C24: a sweep removes exactly the entries whose last access lies at least
\* 7 days back, and so none that was accessed less than 7 days ago. In
\* main.rs an entry was last accessed no earlier than it was created, so an
\* entry a sweep removes was created at least 7 days before.
C24_SweepRemovesIdleSevenDays ==
    [][\A h \in DOMAIN main_entries :
          h \notin DOMAIN main_entries'
          => now - main_entries[h].created_at >= SWEEP_TTL_SECS]_vars

\* C25: in every reachable state, under any interleaving of concurrent
\* lookups, inserts (re-insertion of a fingerprint included) and sweeps with
\* a clock that never goes back, every entry of the result cache has
\* last_accessed >= created_at.
C25_AccessedNotBeforeCreated ==
    \A k \in DOMAIN entries : entries[k].last_accessed >= entries[k].created_at

\* C25: an entry was looked up after its creation while a re-insertion of
\* its fingerprint that read the clock before the lookup awaits the lock
C25_Witness ==
    \E c \in Clients :
        /\ call[c].op = "put_pdf" /\ call[c].pc = "lock"
        /\ call[c].hash \in DOMAIN entries
        /\ entries[call[c].hash].last_accessed > entries[call[c].hash].created_at
        /\ call[c].now < entries[call[c].hash].last_accessed

\* C26: a lookup returns a cached PDF only when the entry exists and is not
\* expired: an entry last accessed a TTL or more before the lookup read the
\* clock is never returned as a hit, also when no sweep has removed it yet.
C26_ExpiredNeverHit ==
    [][\A c \in Clients :
         (/\ call[c].op = "get_pdf" /\ call[c].pc = "store"
          /\ call'[c].pc = "done" /\ call'[c].ret.some)
         => /\ call[c].hash \in DOMAIN entries
            /\ call[c].now - entries[call[c].hash].last_accessed < SWEEP_TTL_SECS]_vars

(***************************************************************************)
(* Claims about Compiler::compile_file.                                    *)
(***************************************************************************)
\* the call of compile_file has returned after n engine passes
Returned(n) == cf.pc = "returned" /\ cf.passes = n

\* C27 (as amended): compile_file runs the engine at most twice and consults
\* the healer at most once; the second pass happens only after the first
\* failed and the healer returned a patch for the main source as it was; the
\* patch is written over the main source before the second pass unless the
\* write fails, which is ignored; the result returned is the second pass's;
\* the log returned is the first pass's log, the retry banner, the second
\* pass's log and, when the second pass succeeded, the success trailer.
C27_RetryOnce ==
    cf.pc # "idle" =>
        /\ cf.passes <= 2 /\ cf.heals <= 1
        /\ cf.pc = "retry" =>
             /\ cf.passes = 1 /\ ~cf.first.res.ok
             /\ cf.files = IF cf.wrote THEN Insert(cf.original, MainTex, cf.patch)
                           ELSE cf.original
        /\ Returned(2) =>
             /\ ~cf.first.res.ok
             /\ read_to_string(cf.original, MainTex).some
             /\ Some(cf.patch) = attempt_heal(cf.original[MainTex], cf.first.logs)
             /\ cf.files = IF cf.wrote THEN Insert(cf.original, MainTex, cf.patch)
                           ELSE cf.original
             /\ cf.second \in CompileOutcomes(cf.files, MainTex)
             /\ cf.res = cf.second.res
             /\ cf.logs = cf.first.logs \o <<RetryBanner>> \o cf.second.logs
                          \o (IF cf.second.res.ok THEN <<FixedTrailer>> ELSE << >>)

\* C27: the second pass ran on the patched source and failed with an error
\* the healer has a patch for, and compile_file returned
C27_Witness ==
    /\ Returned(2) /\ cf.wrote /\ cf.heals = 1
    /\ ~cf.second.res.ok /\ cf.second.logs # << >>
    /\ attempt_heal(cf.files[MainTex], cf.second.logs).some

\* C27 (as stated): after a second pass the main source holds the patch and
\* the log returned is the first pass's log, then the retry banner, then the
\* second pass's log.
C27_LogIsFirstBannerSecond ==
    Returned(2) =>
        /\ cf.files[MainTex] = cf.patch
        /\ cf.res = cf.second.res
        /\ cf.logs = cf.first.logs \o <<RetryBanner>> \o cf.second.logs

\* none of the three rules of the healer applies to a source and a log
NoRuleApplies(content, logs) ==
    /\ ~fix_missing_end(content).applied
    /\ ~fix_undefined(content, content, logs).applied
    /\ ~fix_runaway(content, logs).applied

\* C28: when the first pass fails and the healer has no patch for the main
\* source, compile_file returns the first pass's error and the first pass's
\* log as they are, runs the engine no second time and leaves the main
\* source as it was.
C28_NoPatchSurfacesFirstFailure ==
    (/\ cf.pc \in {"retry", "returned"} /\ ~cf.first.res.ok
     /\ read_to_string(cf.original, MainTex).some
     /\ NoRuleApplies(cf.original[MainTex], cf.first.logs))
    => /\ cf.pc = "returned" /\ cf.passes = 1
       /\ cf.res = cf.first.res /\ cf.logs = cf.first.logs
       /\ cf.files = cf.original

\* C28: the healer was consulted about a failure with a log and had no
\* patch, and compile_file returned
C28_Witness ==
    /\ Returned(1) /\ ~cf.first.res.ok /\ cf.heals = 1
    /\ cf.first.logs # << >>
    /\ cf.res = cf.first.res /\ cf.files = cf.original

\* a request that hit the result cache and is about to return has no
\* workspace
HitHasNoWorkspace ==
    \A r \in Requests : req[r].pc = "hit" => r \notin DOMAIN dirs

\* an entry comes into the result cache only by the insert of a request
\* whose engine pass is over
InsertAfterEngine ==
    \A h \in DOMAIN entries' :
        h \notin DOMAIN entries
        => \E r \in Requests : /\ req[r].pc = "put" /\ req[r].input_hash = h
                               /\ req'[r].pc = "answered"

\* C29: within a compile task the order is fingerprint, lookup, then either
\* the return of the hit or workspace build, engine, cache insert, respond:
\* a request that hits the result cache returns before any workspace is
\* created or any file is written, and no cache insert precedes the engine
\* pass of its task.
C29_LookupBeforeWorkspace == []HitHasNoWorkspace /\ [][InsertAfterEngine]_vars

\* the logs indicate an emergency stop
EmergencyStop(logs) == \E i \in 1..Len(logs) : logs[i].msg = "Emergency stop"

\* the result of the healer ends with the terminator the first rule appends
\* to the source, whatever the other rules inserted before it
TerminatorAppended(content, result) ==
    /\ result.some
    /\ Len(result.val) >= Len(content) + 3
    /\ SubSeq(result.val, Len(result.val) - 2, Len(result.val)) = <<"\n", EndDoc, "\n">>
    /\ ~Contains(content, EndDoc)

\* C30: the Self-Healer appends the document terminator exactly when the
\* logs indicate an emergency stop, the source contains \begin{document} and
\* the source lacks \end{document}; when the logs do not indicate an
\* emergency stop the rule changes nothing.
C30_TerminatorOnEmergencyStop ==
    heal.pc = "done" =>
        (TerminatorAppended(heal.content, heal.result)
         <=> (/\ EmergencyStop(heal.logs)
              /\ Contains(heal.content, BeginDoc)
              /\ ~Contains(heal.content, EndDoc)))

(***************************************************************************)
(* Claims about the rules of the Self-Healer.                              *)
(***************************************************************************)
\* the commands of a line that are not protected
Unprotected(line_str) == SelectSeq(line_str, LAMBDA tok : tok \in UndefinedCommands)

RECURSIVE StubsEachAfterNewline(_)
\* one stub per command, each preceded by a newline
StubsEachAfterNewline(cmds) ==
    IF cmds = << >> THEN << >>
    ELSE <<"\n", Stub(Head(cmds))>> \o StubsEachAfterNewline(Tail(cmds))

RECURSIVE StubsEachOnALine(_)
\* one stub per command, each followed by a newline
StubsEachOnALine(cmds) ==
    IF cmds = << >> THEN << >>
    ELSE <<Stub(Head(cmds)), "\n">> \o StubsEachOnALine(Tail(cmds))

\* the stubs of cmds spliced into a text: immediately before the first
\* \begin{document}; without that marker after the first newline; without
\* any newline in front of the text
Spliced(text, cmds) ==
    IF Contains(text, BeginDoc)
    THEN SubSeq(text, 1, find(text, BeginDoc) - 1) \o StubsEachAfterNewline(cmds)
         \o SubSeq(text, find(text, BeginDoc), Len(text))
    ELSE IF Contains(text, "\n")
    THEN SubSeq(text, 1, find(text, "\n")) \o StubsEachOnALine(cmds)
         \o SubSeq(text, find(text, "\n") + 1, Len(text))
    ELSE StubsEachAfterNewline(cmds) \o text

\* the log reports an undefined control sequence at a line of the source
\* that holds a command that is not protected
ReportsUnprotected(content, logs) ==
    /\ undefined_at(logs).some
    /\ undefined_at(logs).val >= 1
    /\ undefined_at(logs).val <= Len(lines(content))
    /\ Unprotected(lines(content)[undefined_at(logs).val]) # << >>

\* C31: when the log reports an undefined control sequence at line n, the
\* healer takes line n of the source as it was given, makes one stub for each
\* command of that line that is not protected, and splices the stubs
\* immediately before \begin{document}, else after the first newline, else
\* in front; the other two rules act as they do without it.
C31_StubsSpliced ==
    (heal.pc = "done" /\ ReportsUnprotected(heal.content, heal.logs))
    => heal.result =
         Some(fix_runaway(Spliced(fix_missing_end(heal.content).text,
                                  Unprotected(lines(heal.content)[undefined_at(heal.logs).val])),
                          heal.logs).text)

\* C31: the terminator rule changed a source whose reported line, the last,
\* holds two commands that are not protected, and both got a stub
C31_Witness ==
    /\ heal.pc = "done" /\ ReportsUnprotected(heal.content, heal.logs)
    /\ Contains(heal.content, BeginDoc) /\ ~Contains(heal.content, EndDoc)
    /\ undefined_at(heal.logs).val = Len(lines(heal.content))
    /\ Len(Unprotected(lines(heal.content)[undefined_at(heal.logs).val])) = 2
    /\ heal.result.some
    /\ \A c \in UndefinedCommands : Contains(heal.result.val, Stub(c))

\* the log reports a runaway argument or a file that ended while scanning
ReportsRunaway(logs) ==
    \E i \in 1..Len(logs) : logs[i].msg \in {"Runaway argument", "File ended while scanning"}

\* how many times tok occurs in seq
Count(seq, tok) == Cardinality({i \in 1..Len(seq) : seq[i] = tok})

\* the text with the closing-brace patch just before its last \end{document},
\* or at its end when it has none
BraceBeforeEnd(text) ==
    IF Contains(text, EndDoc)
    THEN SubSeq(text, 1, rfind(text, EndDoc) - 1) \o <<"\n", "}", "\n">>
         \o SubSeq(text, rfind(text, EndDoc), Len(text))
    ELSE text \o <<"\n", "}", "\n">>

\* the source after the first two rules of the healer
AfterFirstTwoRules(content, logs) ==
    fix_undefined(content, fix_missing_end(content).text, logs).text

\* C32: when the log reports a runaway argument or a file that ended while
\* scanning, the healer inserts exactly one closing brace, just before
\* \end{document} when the source, a terminator appended by the first rule
\* included, has one, and at the end of the source otherwise.
C32_OneClosingBrace ==
    (heal.pc = "done" /\ ReportsRunaway(heal.logs))
    => /\ heal.result = Some(BraceBeforeEnd(AfterFirstTwoRules(heal.content, heal.logs)))
       /\ Count(heal.result.val, "}") = 1
       /\ Contains(heal.content, BeginDoc) \/ Contains(heal.content, EndDoc)
          => \E i \in 1..Len(heal.result.val) :
                /\ heal.result.val[i] = "}"
                /\ SubSeq(heal.result.val, i + 1, i + 2) = <<"\n", EndDoc>>

\* C32: the first rule appended the terminator and the brace was put just
\* before it
C32_Witness ==
    /\ heal.pc = "done" /\ ReportsRunaway(heal.logs)
    /\ Contains(heal.content, BeginDoc) /\ ~Contains(heal.content, EndDoc)
    /\ heal.result.some
    /\ LET p == heal.result.val IN
       /\ Len(p) = Len(heal.content) + 6
       /\ SubSeq(p, Len(p) - 5, Len(p)) = <<"\n", "\n", "}", "\n", EndDoc, "\n">>

RECURSIVE IsSubsequence(_, _)
\* the elements of a occur in b in the order they have in a
IsSubsequence(a, b) ==
    IF a = << >> THEN TRUE
    ELSE IF b = << >> THEN FALSE
    ELSE IF Head(a) = Head(b) THEN IsSubsequence(Tail(a), Tail(b))
    ELSE IsSubsequence(a, Tail(b))

\* C33: a patch the healer returns is the source with insertions only: the
\* source occurs in it in its order, nothing is deleted or replaced, and the
\* patch is strictly longer; the healer returns None exactly when none of
\* its rules inserted anything.
C33_InsertionsOnly ==
    heal.pc = "done" =>
        /\ heal.result.some
           => /\ IsSubsequence(heal.content, heal.result.val)
              /\ Len(heal.result.val) > Len(heal.content)
        /\ heal.result = None <=> NoRuleApplies(heal.content, heal.logs)

\* C33: all three rules inserted into one source
C33_Witness ==
    /\ heal.pc = "done" /\ heal.result.some
    /\ fix_missing_end(heal.content).applied
    /\ fix_undefined(heal.content, heal.content, heal.logs).applied
    /\ fix_runaway(heal.content, heal.logs).applied
    /\ Len(heal.result.val) >= Len(heal.content) + 8

(***************************************************************************)
(* Claims about the log parser.                                            *)
(***************************************************************************)
\* the lines among the n lines after line i that match l.<n><context>
LNumWithin(log, i, n) ==
    {j \in (i + 1)..(i + n) : j <= Len(log) /\ log[j].level = "l."}

\* the file of the nearest line before line i that opens one
MostRecentFile(log, i) ==
    LET opens == {j \in 1..(i - 1) : log[j].level = "("}
    IN IF opens = {} THEN UnknownFile
       ELSE log[CHOOSE j \in opens : \A k \in opens : j >= k].file

\* d is the diagnostic claimed for the error line i of the log
ClaimedFor(d, log, i) ==
    /\ "context" \in DOMAIN d \/ "line" \notin DOMAIN d
    /\ d.message = log[i].msg
    /\ d.file = MostRecentFile(log, i)
    /\ LET found == LNumWithin(log, i, 10) IN
       IF found = {} THEN "line" \notin DOMAIN d
       ELSE /\ "line" \in DOMAIN d
            /\ d.line = log[CHOOSE j \in found : \A k \in found : j <= k].line
            /\ d.context = log[CHOOSE j \in found : \A k \in found : j <= k].context

\* the lines of a log that begin with ! or error: and are not the generic
\* 'halted' line
ErrorLines(log) == {i \in 1..Len(log) : log[i].level = "!" /\ log[i].msg # Halted}

\* C34: every log line that begins with '!' or 'error:', the generic
\* 'halted' line excepted, yields one diagnostic, whose line and context are
\* those of the first l.<n> line among the next 10 lines and whose file is
\* that of the most recent earlier line that opens a file, "unknown" when
\* there is none; the 'halted' line yields none.
C34_FallbackDiagnostic ==
    diag.pc = "done" =>
        /\ Len(diag.result)
             = Cardinality(ErrorLines(diag.log))
               + Cardinality({i \in 1..Len(diag.log) : diag.log[i].level = "Error"})
        /\ \A i \in ErrorLines(diag.log) :
             \E k \in 1..Len(diag.result) : ClaimedFor(diag.result[k], diag.log, i)

(***************************************************************************)
(* Claims about concurrent callers of the result cache.                    *)
(***************************************************************************)
\* C35: under any interleaving of concurrent lookups of one fingerprint,
\* each of which reads the clock and then stores it under the shared lock,
\* the entry's last_accessed never decreases from one state to the next.
C35_LastAccessedNeverDecreases ==
    [][\A c \in Clients :
         (call[c].op = "get_pdf" /\ call[c].pc = "store" /\ call'[c].pc = "done")
         => entries'[call[c].hash].last_accessed
              >= entries[call[c].hash].last_accessed]_vars

\* client c's put_pdf is about to insert under a fingerprint that is already
\* in the cache, and the sizes fit once the old entry is replaced
ReplacementFits(c) ==
    /\ call[c].op = "put_pdf" /\ call[c].pc = "lock"
    /\ call[c].hash \in DOMAIN entries
    /\ current_size(entries) - entries[call[c].hash].size_bytes
         + ByteLen(call[c].pdf_data) <= CacheLimit

\* C36: an insert for a fingerprint that is already in the cache replaces
\* that entry and evicts no other entry whenever the total size after the
\* replacement is within the limit.
C36_ReplacementEvictsNoOther ==
    [][\A c \in Clients :
         (ReplacementFits(c) /\ call'[c].pc = "done")
         => /\ DOMAIN entries' = DOMAIN entries
            /\ entries'[call[c].hash].pdf_data = call[c].pdf_data
            /\ \A k \in DOMAIN entries \ {call[c].hash} : entries'[k] = entries[k]]_vars

(***************************************************************************)
(* Claims about what a fingerprint stands for.                             *)
(***************************************************************************)
\* the files of a multipart body: each name with its content
FileSet(up) == {<<up[i].name, up[i].data>> : i \in 1..Len(up)}

\* request r was answered from the result cache
AnsweredHit(r) ==
    /\ req[r].pc = "answered" /\ req[r].kind = "http"
    /\ req[r].status = 200 /\ req[r].cache = "HIT"

\* request s compiled and stored its PDF
AnsweredMiss(s) ==
    /\ req[s].pc = "answered" /\ req[s].kind = "http"
    /\ req[s].status = 200 /\ req[s].cache = "MISS"

\* C37: a HIT is returned only to a request whose submitted files (names,
\* per-file contents and main file) equal those of the request that stored
\* the entry: requests whose file sets differ never share a cache entry.
C37_HitOnlyForSameFiles ==
    \A r, s \in Requests :
        (AnsweredHit(r) /\ AnsweredMiss(s) /\ req[r].input_hash = req[s].input_hash)
        => /\ FileSet(req[r].upload) = FileSet(req[s].upload)
           /\ req[r].main = req[s].main

(***************************************************************************)
(* Claims about what populates the result cache.                           *)
(***************************************************************************)
\* the errors a compile can end in
CompileErrors == {"Bundle error", MissingPdf, "Undefined control sequence",
                  "Emergency stop", "invalid UTF-8", "input file not found"}

\* a request whose compile ends in an error leaves the result cache as it was
FailureLeavesCache ==
    \A r \in Requests :
        (req[r].pc = "engine" /\ req'[r].pc = "answered")
        => /\ req'[r].status = 500 /\ req'[r].error \in CompileErrors
           /\ entries' = entries

\* every entry holds the bytes that a request with that fingerprint got from
\* a successful engine run
EntriesFromSuccess ==
    \A h \in DOMAIN entries :
        \E r \in Requests : /\ AnsweredMiss(r)
                            /\ req[r].input_hash = h
                            /\ req[r].body = entries[h].pdf_data
                            /\ req[r].body \in EnginePdfs

\* C38: only successful compiles populate the result cache: a request that
\* ends in a bundle error, an engine failure or a missing PDF leaves the
\* result cache unchanged, and every retained entry holds bytes that a
\* successful engine run produced for an input with that fingerprint.
C38_OnlySuccessPopulates == []EntriesFromSuccess /\ [][FailureLeavesCache]_vars

\* a request ended in a missing PDF, another in an engine failure, and the
\* result cache holds an entry
C38_Witness ==
    /\ DOMAIN entries # {}
    /\ \E r \in Requests : /\ req[r].pc = "answered" /\ req[r].kind = "http"
                           /\ req[r].status = 500 /\ "passes" \in DOMAIN req[r]
                           /\ req[r].error \in {MissingPdf, "Bundle error", "Emergency stop"}

(***************************************************************************)
(* Claims about where submitted files are written.                         *)
(***************************************************************************)
\* C39: for every submitted file name, the path a file is written to during
\* materialization lies inside the requesting task's own workspace
\* directory: no file name, absolute or with parent-directory components,
\* makes a task write outside its workspace.
C39_WritesStayInWorkspace ==
    \A r \in Requests :
        (req[r].kind = "http" /\ req[r].pc = "ingest") => req[r].outside = {}

(***************************************************************************)
(* Claims about a WebSocket session.                                       *)
(***************************************************************************)
\* the frames sent in answer to the i-th message received
FramesFor(i) == {k \in 1..Len(sock.outbox) : sock.outbox[k].re = i}

\* the i-th message received has been dealt with
Handled(i) == i < Len(sock.received) \/ sock.pc # "busy"

\* a project message has one frame once it is dealt with and none before; any
\* other message has none; frames go out in the order of the messages
OneFramePerProject ==
    /\ \A i \in 1..Len(sock.received) :
         Cardinality(FramesFor(i))
           = IF is_project(sock.received[i]) /\ Handled(i) THEN 1 ELSE 0
    /\ \A k \in 1..Len(sock.outbox) :
         /\ sock.outbox[k].type \in {"compile_success", "compile_error"}
         /\ \A j \in 1..(k - 1) : sock.outbox[j].re < sock.outbox[k].re

\* the loop is left only when the stream of messages ends
LeavesOnlyAtEnd == [][sock'.pc = "closed" => sock.pc \in {"recv", "closed"}]_vars

\* C40: on a WebSocket session every inbound text message that parses as a
\* project is answered by exactly one outbound message, compile_success or
\* compile_error, sent before the next inbound message is processed;
\* messages that are not text or do not parse produce none; and in all
\* cases, a failed compile and a failed workspace creation included, the
\* session goes on to the next message.
C40_OneAnswerPerProject ==
    /\ []OneFramePerProject
    /\ LeavesOnlyAtEnd
    /\ (sock.pc = "busy") ~> (sock.pc = "recv")

\* a session that passed over a message, answered a project with
\* compile_error and another with compile_success
C40_Witness ==
    /\ sock.pc = "recv"
    /\ \E i \in 1..Len(sock.received) : ~is_project(sock.received[i])
    /\ \E k \in 1..Len(sock.outbox) : sock.outbox[k].type = "compile_error"
    /\ \E k \in 1..Len(sock.outbox) : sock.outbox[k].type = "compile_success"

====
